---------------------------- MODULE Spec2Model ----------------------------
(***************************************************************************)
(* A model of xcomish, the simulation core of a tile-based tactical game:  *)
(*   - ecs.py      World: per-type component stores and the view cache     *)
(*   - grid.py     Grid: terrain, occupancy, line of sight, fog of war     *)
(*   - pathing.py  reachable_flood and astar                               *)
(*   - systems/    MotionSystem, PatrolAI, ControllerSystem                *)
(*   - app.py      build_world and the per-step system order               *)
(*   - events.py   EventBus: subscribe, unsubscribe and publish            *)
(* The module holds several specifications over one set of variables; each *)
(* specification pins the variables it does not use.                       *)
(***************************************************************************)
EXTENDS Integers, Sequences, FiniteSets, TLC

VARIABLES
    stores,         \* World.stores: type -> (entity -> component object)
    view_cache,     \* World._view_cache: frozenset of types -> result
    view_dirty,     \* World._view_dirty: frozenset of types -> bool
    comp_to_views,  \* World._comp_to_views: type -> list of keys
    cache_stats,    \* World.cache_stats: [hits, misses]
    grid,           \* Grid: w, h and the terrain matrices walkable, opaque
    occupants,      \* Grid.occupants: cell -> entity
    visible,        \* Grid.visible
    explored,       \* Grid.explored
    reachable,      \* ControllerSystem._reachable
    calls,          \* number of calls made so far (bounds a run)
    ghost,          \* what has happened since (auxiliary, read by no operation)
    hist,           \* the last call (its arguments, its result, the state before it)
    subs,           \* EventBus._subs: event type -> list of (handle_id, once, wrapped)
    next_id,        \* EventBus._next_id
    dispatch        \* the publish calls in progress, the innermost last

worldVars == <<stores, view_cache, view_dirty, comp_to_views, cache_stats>>

gridVars == <<grid, occupants, visible, explored>>

busVars == <<subs, next_id, dispatch>>

vars == <<stores, view_cache, view_dirty, comp_to_views, cache_stats,
          grid, occupants, visible, explored, reachable, calls, ghost, hist,
          subs, next_id, dispatch>>

NoHist == [op |-> "none"]

\* the event classes of events.py that carry no field
EventTypes == {"Quit", "ToggleDebug"}

\* EventBus.__init__: no subscription, the first handle id is 1, and no
\* publish in progress
BusIdle ==
    /\ subs = [t \in EventTypes |-> <<>>]
    /\ next_id = 1
    /\ dispatch = <<>>

\* ControllerSystem.__init__: nothing is reachable yet
ControllerIdle == reachable = {}

-----------------------------------------------------------------------------
(* Generic helpers *)

Min(S) == CHOOSE x \in S : \A y \in S : x <= y

Max(S) == CHOOSE x \in S : \A y \in S : y <= x

RECURSIVE SortedSeq_Descending(_)
\* mutant of SortedSeq: largest first
SortedSeq_Descending(S) ==
    IF S = {} THEN <<>> ELSE <<Max(S)>> \o SortedSeq_Descending(S \ {Max(S)})

RECURSIVE SortedSeq(_)
\* sorted(S) for a finite set of integers
SortedSeq(S) == IF S = {} THEN <<>> ELSE <<Min(S)>> \o SortedSeq(S \ {Min(S)})

Range(s) == {s[i] : i \in DOMAIN s}

\* the function f with key k set to v (dict assignment d[k] = v)
Put(f, k, v) == [x \in DOMAIN f \cup {k} |-> IF x = k THEN v ELSE f[x]]

\* the function f without key k (del d[k])
Del(f, k) == [x \in DOMAIN f \ {k} |-> f[x]]

EmptyMap == [x \in {} |-> x]

Abs(n) == IF n < 0 THEN -n ELSE n

-----------------------------------------------------------------------------
(* grid.py: Grid.  Cells are pairs <<x, y>>; the matrices are indexed [y][x]. *)

\* Grid(w, h) after __post_init__: every cell walkable and transparent
NewGrid(w, h) ==
    [w |-> w, h |-> h,
     walkable |-> [y \in 0..(h - 1) |-> [x \in 0..(w - 1) |-> TRUE]],
     opaque |-> [y \in 0..(h - 1) |-> [x \in 0..(w - 1) |-> FALSE]]]

\* a grid with the cells of blocked made non-walkable and opaque, as build_world
\* carves its walls (walkable[y][x] = False; opaque[y][x] = True)
Carve(g, blocked) ==
    [g EXCEPT !.walkable = [y \in DOMAIN @ |-> [x \in DOMAIN @[y] |-> <<x, y>> \notin blocked]],
              !.opaque = [y \in DOMAIN @ |-> [x \in DOMAIN @[y] |-> <<x, y>> \in blocked]]]

CellsOf(g) == (0..(g.w - 1)) \X (0..(g.h - 1))

\* mutant of in_bounds: negative coordinates pass
in_bounds_NoLowerBound(g, x, y) == x < g.w /\ y < g.h

in_bounds(g, x, y) == 0 <= x /\ x < g.w /\ 0 <= y /\ y < g.h

\* list[i] of a Python list of n items held as a function on 0..(n - 1): a
\* negative index counts from the end, an index outside -n..(n - 1) raises
Item(list, n, i) ==
    IF 0 <= i /\ i < n THEN list[i]
    ELSE IF -n <= i /\ i < 0 THEN list[n + i]
    ELSE "IndexError"

\* matrix[y][x] of a terrain matrix of g
Entry(g, matrix, x, y) ==
    IF -g.h <= y /\ y < g.h THEN Item(Item(matrix, g.h, y), g.w, x) ELSE "IndexError"

\* the entries of its terrain matrix that is_walkable, is_blocked or is_opaque
\* reads for (x, y): none when in_bounds is false (and, or short-circuit)
EntriesRead(g, x, y) == IF in_bounds(g, x, y) THEN {<<x, y>>} ELSE {}

is_walkable(g, occ, x, y) ==
    in_bounds(g, x, y) /\ Entry(g, g.walkable, x, y) /\ <<x, y>> \notin DOMAIN occ

is_blocked(g, x, y) == ~in_bounds(g, x, y) \/ ~Entry(g, g.walkable, x, y)

is_opaque(g, x, y) == ~in_bounds(g, x, y) \/ Entry(g, g.opaque, x, y)

\* Grid.neighbors4, in the order it yields
neighbors4(g, x, y) ==
    (IF x > 0 THEN << <<x - 1, y>> >> ELSE <<>>) \o
    (IF x < g.w - 1 THEN << <<x + 1, y>> >> ELSE <<>>) \o
    (IF y > 0 THEN << <<x, y - 1>> >> ELSE <<>>) \o
    (IF y < g.h - 1 THEN << <<x, y + 1>> >> ELSE <<>>)

\* mutant of CanClaim: any claim is accepted, overwriting the owner
CanClaim_Always(occ, cell, e) == TRUE

\* the test of Grid.occupy: the cell is unclaimed or claimed by e itself
CanClaim(occ, cell, e) == ~(cell \in DOMAIN occ /\ occ[cell] # e)

\* Grid.occupy: the value returned and the occupancy mapping after the call
occupy(occ, x, y, e) ==
    IF CanClaim(occ, <<x, y>>, e)
      THEN [ok |-> TRUE, occupants |-> Put(occ, <<x, y>>, e)]
      ELSE [ok |-> FALSE, occupants |-> occ]

\* mutant of vacate: the claim is removed whoever holds it
vacate_Any(occ, x, y, e) ==
    IF <<x, y>> \in DOMAIN occ THEN Del(occ, <<x, y>>) ELSE occ

\* Grid.vacate: the occupancy mapping after the call
vacate(occ, x, y, e) ==
    IF <<x, y>> \in DOMAIN occ /\ occ[<<x, y>>] = e THEN Del(occ, <<x, y>>) ELSE occ

RECURSIVE BresenhamFrom(_, _, _, _, _, _, _, _, _)
\* the loop of Grid.bresenham from (x, y) with error term err
BresenhamFrom(x, y, err, dx, dy, sx, sy, x1, y1) ==
    IF x = x1 /\ y = y1 THEN << <<x, y>> >>
    ELSE LET e2 == 2 * err
             stepx == e2 >= dy
             err1 == IF stepx THEN err + dy ELSE err
             xn == IF stepx THEN x + sx ELSE x
             stepy == e2 <= dx
             err2 == IF stepy THEN err1 + dx ELSE err1
             yn == IF stepy THEN y + sy ELSE y
         IN << <<x, y>> >> \o BresenhamFrom(xn, yn, err2, dx, dy, sx, sy, x1, y1)

\* Grid.bresenham: the cells yielded, in order
bresenham(x0, y0, x1, y1) ==
    LET dx == Abs(x1 - x0)
        dy == -Abs(y1 - y0)
        sx == IF x0 < x1 THEN 1 ELSE -1
        sy == IF y0 < y1 THEN 1 ELSE -1
    IN BresenhamFrom(x0, y0, dx + dy, dx, dy, sx, sy, x1, y1)

\* mutant of has_los: the endpoints are tested for opacity too
has_los_Endpoints(g, x0, y0, x1, y1) ==
    LET line == bresenham(x0, y0, x1, y1)
    IN \A i \in DOMAIN line : ~is_opaque(g, line[i][1], line[i][2])

\* Grid.has_los
has_los(g, x0, y0, x1, y1) ==
    LET line == bresenham(x0, y0, x1, y1)
    IN \A i \in DOMAIN line :
          \/ line[i] = <<x0, y0>>
          \/ line[i] = <<x1, y1>>
          \/ ~is_opaque(g, line[i][1], line[i][2])

\* the terrain entries that has_los reads: those of the cells yielded other
\* than the endpoints, up to the first opaque one
LosReads(g, x0, y0, x1, y1) ==
    LET line == bresenham(x0, y0, x1, y1)
        tested == {i \in DOMAIN line : line[i] # <<x0, y0>> /\ line[i] # <<x1, y1>>}
        reached == {i \in tested :
                      \A j \in tested : j < i => ~is_opaque(g, line[j][1], line[j][2])}
    IN UNION {EntriesRead(g, line[i][1], line[i][2]) : i \in reached}

\* mutant of reveal_from: the visible set is not cleared first
reveal_from_NoClear(g, x0, y0, radius) ==
    LET r2 == radius * radius
        ys == Max({0, y0 - radius})..(Min({g.h, y0 + radius + 1}) - 1)
        xs == Max({0, x0 - radius})..(Min({g.w, x0 + radius + 1}) - 1)
    IN visible \cup
       {c \in xs \X ys :
          /\ (c[1] - x0) * (c[1] - x0) + (c[2] - y0) * (c[2] - y0) <= r2
          /\ has_los(g, x0, y0, c[1], c[2])}

\* Grid.reveal_from: the cells added to the cleared visible set
reveal_from(g, x0, y0, radius) ==
    LET r2 == radius * radius
        ys == Max({0, y0 - radius})..(Min({g.h, y0 + radius + 1}) - 1)
        xs == Max({0, x0 - radius})..(Min({g.w, x0 + radius + 1}) - 1)
    IN {c \in xs \X ys :
          /\ (c[1] - x0) * (c[1] - x0) + (c[2] - y0) * (c[2] - y0) <= r2
          /\ has_los(g, x0, y0, c[1], c[2])}

\* mutant of Explored: explored keeps only what is visible now
Explored_Forgets(exp, seen) == seen

\* the explored set after reveal_from has added the cells seen to it
Explored(exp, seen) == exp \cup seen

GridIdle ==
    /\ grid = NewGrid(0, 0)
    /\ occupants = EmptyMap
    /\ visible = {}
    /\ explored = {}

-----------------------------------------------------------------------------
(* pathing.py: reachable_flood and astar *)

RECURSIVE FloodExpand(_, _, _, _, _, _, _)
\* the loop of reachable_flood over the neighbours ns of a dequeued cell of cost
\* cost: the queue and the seen set after it
FloodExpand(g, occ, start, ns, cost, q, seen) ==
    IF ns = <<>> THEN [q |-> q, seen |-> seen]
    ELSE LET n == Head(ns)
             skip == \/ n \in seen
                     \/ ~in_bounds(g, n[1], n[2])
                     \/ ~g.walkable[n[2]][n[1]]
                     \/ (n \in DOMAIN occ /\ n # start)
         IN IF skip THEN FloodExpand(g, occ, start, Tail(ns), cost, q, seen)
            ELSE FloodExpand(g, occ, start, Tail(ns), cost,
                             Append(q, <<n[1], n[2], cost + 1>>), seen \cup {n})

\* mutant of FloodStops: a cell at cost ap is still expanded
FloodStops_Late(cost, ap) == cost > ap

\* the test of reachable_flood that stops expanding a dequeued cell
FloodStops(cost, ap) == cost >= ap

RECURSIVE FloodLoop(_, _, _, _, _, _, _)
\* the while loop of reachable_flood
FloodLoop(g, occ, start, ap, q, seen, out) ==
    IF q = <<>> THEN out
    ELSE LET x == Head(q)[1]
             y == Head(q)[2]
             cost == Head(q)[3]
             out1 == out \cup {<<x, y>>}
         IN IF FloodStops(cost, ap)
              THEN FloodLoop(g, occ, start, ap, Tail(q), seen, out1)
              ELSE LET r == FloodExpand(g, occ, start, neighbors4(g, x, y), cost,
                                        Tail(q), seen)
                   IN FloodLoop(g, occ, start, ap, r.q, r.seen, out1)

\* reachable_flood(grid, start, ap)
reachable_flood(g, occ, start, ap) ==
    IF ~in_bounds(g, start[1], start[2]) THEN {}
    ELSE FloodLoop(g, occ, start, ap, << <<start[1], start[2], 0>> >>, {start}, {})

\* max_len = None
NoMaxLen == -1

\* The order in which min() scans open_set.  open_set is a Python set, whose
\* iteration order the source does not fix; each scan order given here ranks the
\* cells, and the first cell of minimal f in that order is the one min() returns.
ScanOrders == {"rows", "columns_reversed"}

ScanRank(g, scan, c) ==
    CASE scan = "rows" -> c[2] * (g.w + 2) + c[1]
      [] scan = "columns_reversed" -> -(c[1] * (g.h + 2) + c[2])

\* f.get(p, 10_000_000)
UnknownF == 10000000

\* g.get(p, 1_000_000)
UnknownG == 1000000

\* abs(gx - nx) + abs(gy - ny)
Manhattan(a, b) == Abs(a[1] - b[1]) + Abs(a[2] - b[2])

\* min(open_set, key=lambda p: f.get(p, 10_000_000))
MinOpen(g, scan, open, f) ==
    LET fv(p) == IF p \in DOMAIN f THEN f[p] ELSE UnknownF
        least == {p \in open : \A r \in open : fv(p) <= fv(r)}
    IN CHOOSE p \in least : \A r \in least : ScanRank(g, scan, p) <= ScanRank(g, scan, r)

RECURSIVE Reconstruct(_, _)
\* the reconstruction loop of astar: the cells from current back to the start,
\* last cell first
Reconstruct(came_from, current) ==
    IF current \in DOMAIN came_from
      THEN <<current>> \o Reconstruct(came_from, came_from[current])
      ELSE <<current>>

\* path.reverse()
Reverse(s) == [i \in 1..Len(s) |-> s[Len(s) + 1 - i]]

\* mutant of Truncate: one cell too many is kept
Truncate_OneMore(path, max_len) ==
    IF max_len # NoMaxLen /\ Len(path) > max_len THEN SubSeq(path, 1, max_len + 1) ELSE path

\* path[:max_len] when max_len is given and the path is longer
Truncate(path, max_len) ==
    IF max_len # NoMaxLen /\ Len(path) > max_len THEN SubSeq(path, 1, max_len) ELSE path

\* mutant of AstarPassable: the goal is not exempt from the occupancy rule
AstarPassable_GoalBlocked(g, occ, start, goal, n) ==
    /\ in_bounds(g, n[1], n[2]) /\ g.walkable[n[2]][n[1]]
    /\ ~(n \in DOMAIN occ /\ n # start)

\* the two tests of astar's neighbour loop: true when the neighbour is not skipped
AstarPassable(g, occ, start, goal, n) ==
    /\ in_bounds(g, n[1], n[2]) /\ g.walkable[n[2]][n[1]]
    /\ ~(n \in DOMAIN occ /\ n # start /\ n # goal)

RECURSIVE AstarRelax(_, _, _, _, _, _, _)
\* the neighbour loop of astar for the cell current; st holds open_set,
\* came_from, g and f
AstarRelax(g, occ, start, goal, current, ns, st) ==
    IF ns = <<>> THEN st
    ELSE LET n == Head(ns)
             tentative == st.g[current] + 1
             known == IF n \in DOMAIN st.g THEN st.g[n] ELSE UnknownG
         IN IF AstarPassable(g, occ, start, goal, n) /\ tentative < known
              THEN AstarRelax(g, occ, start, goal, current, Tail(ns),
                     [open_set |-> st.open_set \cup {n},
                      came_from |-> Put(st.came_from, n, current),
                      g |-> Put(st.g, n, tentative),
                      f |-> Put(st.f, n, tentative + Manhattan(goal, n))])
              ELSE AstarRelax(g, occ, start, goal, current, Tail(ns), st)

RECURSIVE AstarLoop(_, _, _, _, _, _)
\* the while loop of astar: the path found, start first, or <<>>
AstarLoop(g, occ, start, goal, scan, st) ==
    IF st.open_set = {} THEN <<>>
    ELSE LET current == MinOpen(g, scan, st.open_set, st.f)
         IN IF current = goal THEN Reverse(Reconstruct(st.came_from, current))
            ELSE AstarLoop(g, occ, start, goal, scan,
                   AstarRelax(g, occ, start, goal, current,
                              neighbors4(g, current[1], current[2]),
                              [st EXCEPT !.open_set = @ \ {current}]))

\* astar up to the reconstructed path, with min() scanning open_set in order scan
astar_search(g, occ, start, goal, scan) ==
    IF start = goal THEN <<start>>
    ELSE IF ~in_bounds(g, goal[1], goal[2]) \/ ~g.walkable[goal[2]][goal[1]] THEN <<>>
    ELSE AstarLoop(g, occ, start, goal, scan,
                   [open_set |-> {start},
                    came_from |-> EmptyMap,
                    g |-> Put(EmptyMap, start, 0),
                    f |-> Put(EmptyMap, start, Manhattan(goal, start))])

\* astar(grid, start, goal, max_len): only a path found by the search is cut to
\* max_len; the early returns [start] and [] are not
astar(g, occ, start, goal, max_len, scan) ==
    LET found == astar_search(g, occ, start, goal, scan)
    IN IF start = goal \/ found = <<>> THEN found ELSE Truncate(found, max_len)

-----------------------------------------------------------------------------
(* ecs.py: World *)

\* Bounds of the World specification
MaxEntity == 2

MaxCalls == 5

Entities == 1..MaxEntity

CompTypes == {"Position", "Faction"}

\* the argument lists of view(): the types named, in call order
ViewCalls == {<<a>> : a \in CompTypes} \cup
             {<<a, b>> : <<a, b>> \in {p \in CompTypes \X CompTypes : p[1] # p[2]}}

ViewKeys == {Range(c) : c \in ViewCalls}

\* Auxiliary bookkeeping per view key: was the key computed, and since its last
\* computation, was add/remove/destroy called on one of its types (called), and
\* was a component of one of its types added or actually deleted (changed)
Touch(g, calledTypes, changedTypes) ==
    [k \in DOMAIN g |->
        [g[k] EXCEPT !.called = @ \/ (k \cap calledTypes # {}),
                     !.changed = @ \/ (k \cap changedTypes # {})]]

Computed(g, key) ==
    [g EXCEPT ![key] = [computed |-> TRUE, called |-> FALSE, changed |-> FALSE]]

\* self.stores.get(ct, {})
StoreOf(st, ct) == IF ct \in DOMAIN st THEN st[ct] ELSE EmptyMap

\* mutant of MarkDirtyIn: the dependent views are not marked
MarkDirtyIn_NoMark(dirty, c2v, ct) == dirty

\* World._mark_dirty_for applied to a dirty map
MarkDirtyIn(dirty, c2v, ct) ==
    [k \in DOMAIN dirty \cup Range(c2v[ct]) |->
        IF k \in Range(c2v[ct]) THEN TRUE ELSE dirty[k]]

_mark_dirty_for(ct) == view_dirty' = MarkDirtyIn(view_dirty, comp_to_views, ct)

\* World.get
get(st, e, ct) == IF ct \in DOMAIN st /\ e \in DOMAIN st[ct] THEN st[ct][e] ELSE 0

\* the stores after stores.setdefault(ct, {})[entity] = component
Stored(st, e, ct, obj) == Put(st, ct, Put(StoreOf(st, ct), e, obj))

\* the stores after the component of type ct of entity e, if any, is deleted
Dropped(st, e, ct) ==
    IF ct \in DOMAIN st /\ e \in DOMAIN st[ct] THEN [st EXCEPT ![ct] = Del(@, e)]
    ELSE st

\* World.add(entity, component)
add(e, ct, obj) ==
    /\ stores' = Stored(stores, e, ct, obj)
    /\ _mark_dirty_for(ct)
    /\ UNCHANGED <<view_cache, comp_to_views, cache_stats>>
    /\ ghost' = Touch(ghost, {ct}, {ct})
    /\ hist' = [op |-> "add", entity |-> e, type |-> ct, effective |-> TRUE]

\* World.remove(entity, comp_type)
remove(e, ct) ==
    /\ IF ct \in DOMAIN stores /\ e \in DOMAIN stores[ct]
         THEN /\ stores' = Dropped(stores, e, ct)
              /\ _mark_dirty_for(ct)
         ELSE UNCHANGED <<stores, view_dirty>>
    /\ UNCHANGED <<view_cache, comp_to_views, cache_stats>>
    /\ ghost' = Touch(ghost, {ct},
                       IF ct \in DOMAIN stores /\ e \in DOMAIN stores[ct] THEN {ct} ELSE {})
    /\ hist' = [op |-> "remove", entity |-> e, type |-> ct,
                effective |-> (ct \in DOMAIN stores /\ e \in DOMAIN stores[ct])]

\* mutant of MarkDirtyAll: destroy marks no view dirty
MarkDirtyAll_None(dirty, c2v, cts) == dirty

RECURSIVE MarkDirtyAll(_, _, _)
MarkDirtyAll(dirty, c2v, cts) ==
    IF cts = {} THEN dirty
    ELSE LET ct == CHOOSE t \in cts : TRUE
         IN MarkDirtyAll(MarkDirtyIn(dirty, c2v, ct), c2v, cts \ {ct})

\* World.destroy(entity)
destroy(e) ==
    LET held == {ct \in DOMAIN stores : e \in DOMAIN stores[ct]}
    IN /\ stores' = [ct \in DOMAIN stores |->
                        IF ct \in held THEN Del(stores[ct], e) ELSE stores[ct]]
       /\ view_dirty' = MarkDirtyAll(view_dirty, comp_to_views, held)
       /\ UNCHANGED <<view_cache, comp_to_views, cache_stats>>
       /\ ghost' = Touch(ghost, held, held)
       /\ hist' = [op |-> "destroy", entity |-> e, types |-> held]

RECURSIVE IntersectIds(_, _, _)
\* the loop of view() that intersects the key sets of the named stores
IntersectIds(st, cts, i) ==
    IF i = 0 THEN {}
    ELSE IF i = 1 THEN DOMAIN StoreOf(st, cts[1])
    ELSE IntersectIds(st, cts, i - 1) \cap DOMAIN StoreOf(st, cts[i])

\* the "Build" part of view(): (ent_sorted, comps_rows)
BuildView(st, cts) ==
    LET ent_sorted == SortedSeq(IntersectIds(st, cts, Len(cts)))
    IN [ents |-> ent_sorted,
        rows |-> [k \in 1..Len(ent_sorted) |->
                    [i \in 1..Len(cts) |-> st[cts[i]][ent_sorted[k]]]]]

\* mutant of RegisterKey: the key is registered under its first type only
RegisterKey_OneType(c2v, key) ==
    LET first == CHOOSE ct \in key : TRUE
    IN [ct \in DOMAIN c2v |->
          IF ct = first /\ key \notin Range(c2v[ct]) THEN Append(c2v[ct], key)
          ELSE c2v[ct]]

\* the registration loop of view(): append key to each type's list once
RegisterKey(c2v, key) ==
    [ct \in DOMAIN c2v |->
        IF ct \in key /\ key \notin Range(c2v[ct]) THEN Append(c2v[ct], key)
        ELSE c2v[ct]]

\* World.view(*comp_types)
view(cts) ==
    LET key == Range(cts)
        cached == key \in DOMAIN view_cache
        dirty == IF key \in DOMAIN view_dirty THEN view_dirty[key] ELSE TRUE
    IN IF cached /\ ~dirty
         THEN /\ cache_stats' = [cache_stats EXCEPT !.hits = @ + 1]
              /\ hist' = [op |-> "view", types |-> cts, hit |-> TRUE,
                          result |-> view_cache[key], before |-> ghost[key]]
              /\ ghost' = Computed(ghost, key)
              /\ UNCHANGED <<stores, view_cache, view_dirty, comp_to_views>>
         ELSE LET result == BuildView(stores, cts)
              IN /\ view_cache' = Put(view_cache, key, result)
                 /\ view_dirty' = Put(view_dirty, key, FALSE)
                 /\ comp_to_views' = RegisterKey(comp_to_views, key)
                 /\ cache_stats' = [cache_stats EXCEPT !.misses = @ + 1]
                 /\ hist' = [op |-> "view", types |-> cts, hit |-> FALSE,
                             result |-> result, before |-> ghost[key]]
                 /\ ghost' = Computed(ghost, key)
                 /\ UNCHANGED stores

WorldIdle ==
    /\ stores = EmptyMap
    /\ view_cache = EmptyMap
    /\ view_dirty = EmptyMap
    /\ comp_to_views = [ct \in CompTypes |-> <<>>]
    /\ cache_stats = [hits |-> 0, misses |-> 0]

\* World()
WorldInit ==
    /\ GridIdle
    /\ WorldIdle
    /\ ControllerIdle
    /\ calls = 0
    /\ ghost = [k \in ViewKeys |->
                 [computed |-> FALSE, called |-> FALSE, changed |-> FALSE]]
    /\ BusIdle
    /\ hist = NoHist

Called == calls < MaxCalls /\ calls' = calls + 1 /\ UNCHANGED <<gridVars, reachable, busVars>>

\* every add passes a component object of its own: the object made by the n-th
\* call is n
WorldAdd == Called /\ \E e \in Entities, ct \in CompTypes : add(e, ct, calls + 1)

WorldRemove == Called /\ \E e \in Entities, ct \in CompTypes : remove(e, ct)

WorldDestroy == Called /\ \E e \in Entities : destroy(e)

WorldView == Called /\ \E cts \in ViewCalls : view(cts)

WorldNext == WorldAdd \/ WorldRemove \/ WorldDestroy \/ WorldView

SpecWorld == WorldInit /\ [][WorldNext]_vars

(* ---- Claims about World ---- *)

\* the entities holding every type of key, computed from the stores as they are
FreshEntities(key) ==
    {e \in Entities : \A ct \in key : ct \in DOMAIN stores /\ e \in DOMAIN stores[ct]}

Ascending(s) == \A i, j \in DOMAIN s : i < j => s[i] < s[j]

\* the orders in which the types of key can be listed
Orders(key) == {o \in [1..Cardinality(key) -> key] : Range(o) = key}

\* C1 (cache coherence): the result of every view call, a hit or a miss, lists
\* in ascending order exactly the entities that hold every type of the key in
\* the stores as they are now, and each entity's row holds that entity's current
\* component of each type of the key: a cached result is never stale.
C1_CacheCoherence ==
    hist.op = "view" =>
        LET key == Range(hist.types)
            r == hist.result
        IN /\ Range(r.ents) = FreshEntities(key)
           /\ Ascending(r.ents)
           /\ Len(r.rows) = Len(r.ents)
           /\ \A k \in DOMAIN r.ents :
                 \E o \in Orders(key) :
                    r.rows[k] = [i \in DOMAIN o |-> stores[o[i]][r.ents[k]]]

\* C1 witness: a view is served from the cache, non-empty, after an earlier
\* invalidation and recomputation of the same key
C1_Witness ==
    /\ hist.op = "view" /\ hist.hit
    /\ Len(hist.result.ents) = 2
    /\ cache_stats.misses >= 2
    /\ Cardinality(DOMAIN view_cache) = 1

\* C2 (rows in request order): the i-th element of every row returned by
\* view(T1, ..., Tn) is the entity's component of type Ti.
C2_RowsInRequestOrder ==
    hist.op = "view" =>
        \A k \in DOMAIN hist.result.ents :
            hist.result.rows[k] =
                [i \in DOMAIN hist.types |-> stores[hist.types[i]][hist.result.ents[k]]]

\* C9 as stated: a view of K is a hit iff K was computed before and no add,
\* remove or destroy was called on a type of K since
C9_HitIffNoCallSince ==
    hist.op = "view" => (hist.hit <=> (hist.before.computed /\ ~hist.before.called))

\* C9 as amended: a view of K is a hit iff K was computed before and since then
\* no add was called on a type of K and no component of a type of K was actually
\* deleted by remove or destroy (a remove of a component the entity does not hold
\* leaves the entry valid).
C9_HitIffUnchangedSince ==
    hist.op = "view" => (hist.hit <=> (hist.before.computed /\ ~hist.before.changed))

\* C9 witness: a hit on a key after a call that touched only another type
C9_Witness ==
    /\ hist.op = "view" /\ hist.hit
    /\ hist.types = <<"Position">>
    /\ "Faction" \in DOMAIN stores
    /\ ghost[{"Faction"}].changed
    /\ cache_stats.misses = 2

-----------------------------------------------------------------------------
(* Grid.occupy and Grid.vacate called in any order *)

\* Bounds of the Grid specification.  The grid is one row of GridW cells:
\* occupy and vacate never look at the geometry.
GridW == 3

MaxClaimant == 2

Claimants == 1..MaxClaimant

GridInit ==
    /\ WorldIdle
    /\ grid = NewGrid(GridW, 1)
    /\ occupants = EmptyMap
    /\ visible = {}
    /\ explored = {}
    /\ ControllerIdle
    /\ calls = 0
    /\ ghost = 0
    /\ BusIdle
    /\ hist = NoHist

GridOccupy ==
    \E c \in CellsOf(grid), e \in Claimants :
        LET r == occupy(occupants, c[1], c[2], e)
        IN /\ occupants' = r.occupants
           /\ hist' = [op |-> "occupy", cell |-> c, entity |-> e, ret |-> r.ok,
                       before |-> occupants]
           /\ UNCHANGED <<worldVars, grid, visible, explored, reachable, calls, ghost, busVars>>

GridVacate ==
    \E c \in CellsOf(grid), e \in Claimants :
        /\ occupants' = vacate(occupants, c[1], c[2], e)
        /\ hist' = [op |-> "vacate", cell |-> c, entity |-> e, before |-> occupants]
        /\ UNCHANGED <<worldVars, grid, visible, explored, reachable, calls, ghost, busVars>>

GridNext == GridOccupy \/ GridVacate

SpecGrid == GridInit /\ [][GridNext]_vars

(* ---- Claims about Grid ---- *)

\* C3 (occupancy exclusivity): occupy(cell, e) returns true and records e as the
\* owner exactly when the cell was unclaimed or already owned by e; otherwise it
\* returns false and leaves the whole mapping as it was; and no call of occupy or
\* vacate replaces the owner of a cell by another entity.
C3_OccupancyExclusive ==
    /\ hist.op = "occupy" =>
          LET free == hist.cell \notin DOMAIN hist.before
              own == ~free /\ hist.before[hist.cell] = hist.entity
          IN /\ hist.ret <=> (free \/ own)
             /\ hist.ret => /\ DOMAIN occupants = DOMAIN hist.before \cup {hist.cell}
                            /\ occupants[hist.cell] = hist.entity
                            /\ \A c \in DOMAIN hist.before \ {hist.cell} :
                                  occupants[c] = hist.before[c]
             /\ ~hist.ret => occupants = hist.before
    /\ hist.op \in {"occupy", "vacate"} =>
          \A c \in DOMAIN hist.before \cap DOMAIN occupants : occupants[c] = hist.before[c]

\* C3 witness: an occupy on a cell owned by another entity has been refused
\* while other cells are claimed too
C3_Witness ==
    /\ hist.op = "occupy" /\ ~hist.ret
    /\ hist.cell \in DOMAIN occupants /\ occupants[hist.cell] # hist.entity
    /\ Cardinality(DOMAIN occupants) >= 2

-----------------------------------------------------------------------------
(* reachable_flood and astar applied to every small grid *)

\* Bounds of the Pathing specification
PathW == 3

PathH == 3

MaxBlocked == 2

MaxOccupied == 1

MaxBudget == 3

MaxLen == 2

\* the start cells: the cells of the grid and the ring of cells around it
PathStarts == ((-1)..PathW) \X ((-1)..PathH)

\* the goal cells: the cells of the grid and two cells outside it
PathGoals == ((0..(PathW - 1)) \X (0..(PathH - 1))) \cup {<<-1, 0>>, <<PathW, PathH>>}

PathInit ==
    /\ WorldIdle
    /\ \E blocked \in SUBSET CellsOf(NewGrid(PathW, PathH)) :
          /\ Cardinality(blocked) <= MaxBlocked
          /\ grid = Carve(NewGrid(PathW, PathH), blocked)
    /\ \E taken \in SUBSET CellsOf(NewGrid(PathW, PathH)) :
          /\ Cardinality(taken) <= MaxOccupied
          /\ occupants = [c \in taken |-> 1]
    /\ visible = {}
    /\ explored = {}
    /\ ControllerIdle
    /\ calls = 0
    /\ ghost = 0
    /\ BusIdle
    /\ hist = NoHist

PathFlood ==
    /\ hist = NoHist
    /\ \E start \in CellsOf(grid), ap \in 0..MaxBudget :
          hist' = [op |-> "reachable_flood", start |-> start, ap |-> ap,
                   result |-> reachable_flood(grid, occupants, start, ap)]
    /\ UNCHANGED <<worldVars, gridVars, reachable, calls, ghost, busVars>>

\* mutant of PathAstar: astar records the cells of its path as explored
PathAstar_Explores ==
    /\ hist = NoHist
    /\ \E start \in PathStarts, goal \in PathGoals, scan \in ScanOrders,
         max_len \in {NoMaxLen} \cup 0..MaxLen :
          LET result == astar(grid, occupants, start, goal, max_len, scan)
          IN /\ hist' = [op |-> "astar", start |-> start, goal |-> goal,
                         max_len |-> max_len, scan |-> scan, result |-> result]
             /\ explored' = explored \cup Range(result)
    /\ UNCHANGED <<worldVars, grid, occupants, visible, reachable, calls, ghost, busVars>>

PathAstar ==
    /\ hist = NoHist
    /\ \E start \in PathStarts, goal \in PathGoals, scan \in ScanOrders,
         max_len \in {NoMaxLen} \cup 0..MaxLen :
          hist' = [op |-> "astar", start |-> start, goal |-> goal, max_len |-> max_len,
                   scan |-> scan,
                   result |-> astar(grid, occupants, start, goal, max_len, scan)]
    /\ UNCHANGED <<worldVars, gridVars, reachable, calls, ghost, busVars>>

PathNext == PathFlood \/ PathAstar

SpecPathing == PathInit /\ [][PathNext]_vars

(* ---- Claims about reachable_flood and astar ---- *)

Adjacent(a, b) == Abs(a[1] - b[1]) + Abs(a[2] - b[2]) = 1

\* in-bounds and terrain-walkable
OnTerrain(c) == in_bounds(grid, c[1], c[2]) /\ grid.walkable[c[2]][c[1]]

\* in-bounds, terrain-walkable and unoccupied
FreeCell(c) == OnTerrain(c) /\ c \notin DOMAIN occupants

\* the free cells next to a cell of S
FreeNextTo(S) == {c \in CellsOf(grid) : FreeCell(c) /\ \E p \in S : Adjacent(p, c)}

RECURSIVE GrowFree(_, _)
GrowFree(S, k) == IF k = 0 THEN S ELSE GrowFree(S \cup FreeNextTo(S), k - 1)

\* the cells that end a 4-connected path from start of at most k steps whose
\* cells after start are free
WithinSteps(start, k) == GrowFree({start}, k)

\* C7 (reachability bound): for an in-bounds start and a budget >= 0,
\* reachable_flood returns exactly the cells that end a 4-connected path from
\* start of at most budget steps whose cells after start are in-bounds,
\* terrain-walkable and unoccupied; start itself is always in the result.
C7_FloodExact ==
    hist.op = "reachable_flood" =>
        /\ hist.result = WithinSteps(hist.start, hist.ap)
        /\ hist.start \in hist.result

\* C7 witness: a flood that the budget cuts short, on a grid where an occupied
\* cell and a wall next to the flooded region are left out
C7_Witness ==
    /\ hist.op = "reachable_flood" /\ hist.ap = 2
    /\ Cardinality(hist.result) >= 4
    /\ WithinSteps(hist.start, 3) # hist.result
    /\ \E c \in DOMAIN occupants : c # hist.start /\ \E r \in hist.result : Adjacent(r, c)
    /\ \E c \in CellsOf(grid) : ~OnTerrain(c) /\ \E r \in hist.result : Adjacent(r, c)

\* one more step of a route: from the start or a free cell of S to a free cell
\* or to the goal, the goal being on terrain
RouteStep(S, start, goal) ==
    {c \in CellsOf(grid) :
        /\ FreeCell(c) \/ (c = goal /\ OnTerrain(c))
        /\ \E p \in S : Adjacent(p, c) /\ (p = start \/ FreeCell(p))}

RECURSIVE StepsTo(_, _, _, _)
\* the number of steps of a shortest route from a cell of S to goal, plus k; -1
\* when there is none
StepsTo(S, start, goal, k) ==
    IF goal \in S THEN k
    ELSE LET T == S \cup RouteStep(S, start, goal)
         IN IF T = S THEN -1 ELSE StepsTo(T, start, goal, k + 1)

\* the number of steps of a shortest route from start to goal whose cells after
\* start are free cells or the goal; -1 when there is none, or when the start
\* cell may not be left (startOk false)
Distance(start, goal, startOk) ==
    IF startOk THEN StepsTo({start}, start, goal, 0) ELSE -1

\* what the claim says of a result of astar without max_len, for a given rule
\* on the start cell
ShortestOrEmpty(path, start, goal, startOk) ==
    IF start = goal THEN path = <<start>>
    ELSE IF Distance(start, goal, startOk) = -1 THEN path = <<>>
    ELSE /\ path # <<>>
         /\ path[1] = start
         /\ path[Len(path)] = goal
         /\ \A i \in 1..(Len(path) - 1) : Adjacent(path[i], path[i + 1])
         /\ \A i \in 2..(Len(path) - 1) : FreeCell(path[i])
         /\ Len(path) - 1 = Distance(start, goal, startOk)

\* C8 as stated, for the starts inside the grid: start and goal are exempt from
\* the occupancy rule only, so a route exists only from a start cell that is
\* terrain-walkable
C8_ShortestStartOnTerrain ==
    (hist.op = "astar" /\ hist.max_len = NoMaxLen
        /\ in_bounds(grid, hist.start[1], hist.start[2])) =>
        ShortestOrEmpty(hist.result, hist.start, hist.goal, OnTerrain(hist.start))

\* C8 as amended: astar without max_len returns a path that begins at start,
\* ends at goal, moves between 4-adjacent cells and has as many edges as the
\* shortest route in the graph whose intermediate cells are in-bounds,
\* terrain-walkable and unoccupied, whose goal is in-bounds and terrain-walkable
\* (exempt from the occupancy rule) and whose start is exempt from every rule
\* (astar never tests its start cell); it returns the empty list iff there is no
\* such route, and [start] when start = goal.
C8_ShortestAnyStart ==
    (hist.op = "astar" /\ hist.max_len = NoMaxLen) =>
        ShortestOrEmpty(hist.result, hist.start, hist.goal, TRUE)

\* C8 witness: a path that detours around a wall and ends on an occupied goal
C8_Witness ==
    /\ hist.op = "astar" /\ hist.max_len = NoMaxLen
    /\ hist.result # <<>>
    /\ Len(hist.result) - 1 > Manhattan(hist.start, hist.goal)
    /\ hist.goal \in DOMAIN occupants
    /\ OnTerrain(hist.start)

-----------------------------------------------------------------------------
(* components.py: component objects as records; constants.py *)

TILE == 32

\* Time is counted in fixed steps: FIXED_DT is 1 and a second is 60 of them.
\* A movement budget is counted in sixtieths of a tile, so that
\* speed_tps * dt keeps its value and one tile (1.0) is TicksPerSecond.
TicksPerSecond == 60

FIXED_DT == 1

MOVE_SPEED == 6

FOV_RADIUS == 10

\* Position(gx, gy)
Position(gx, gy) == [gx |-> gx, gy |-> gy, px |-> 0, py |-> 0]

\* Motion()
Motion == [path |-> <<>>, speed_tps |-> MOVE_SPEED]

\* AP(current, maximum)
AP(current, maximum) == [current |-> current, maximum |-> maximum]

-----------------------------------------------------------------------------
(* systems/motion.py: MotionSystem *)

\* mutant of _step_to: the source cell is not vacated
_step_to_NoVacate(occ, eid, x0, y0, x1, y1) == occupy(occ, x1, y1, eid)

\* mutant of _step_to: a refused destination is not rolled back
_step_to_NoRollback(occ, eid, x0, y0, x1, y1) ==
    occupy(vacate(occ, x0, y0, eid), x1, y1, eid)

\* MotionSystem._step_to on an occupancy mapping: [ok, occupants]
_step_to(occ, eid, x0, y0, x1, y1) ==
    LET left == vacate(occ, x0, y0, eid)
        r == occupy(left, x1, y1, eid)
    IN IF ~r.ok
         THEN [ok |-> FALSE, occupants |-> occupy(left, x0, y0, eid).occupants]
         ELSE r

\* mutant of Spend: a move costs nothing
Spend_Free(current) == current

\* mutant of Spend: a move gives a point back
Spend_Refund(current) == current + 1

\* mutant of Spend: a move costs two
Spend_Twice(current) == Max({0, current - 2})

\* mutant of Spend: spending the last AP gives one back
Spend_Refills(current) == IF current <= 1 THEN current + 1 ELSE current - 1

\* ap.current = max(0, ap.current - 1)
Spend(current) == Max({0, current - 1})

RECURSIVE MotionLoop(_, _)
\* The while loop of MotionSystem.update for entity eid.  s holds the objects
\* of the row (pos, motion, ap), the occupancy mapping, the budget left, and
\* log, the state at the start of each iteration made so far.
MotionLoop(eid, s) ==
    IF ~(s.remaining > 0 /\ s.motion.path # <<>> /\ s.ap.current > 0) THEN s
    ELSE
      LET n == Head(s.motion.path)
          dist == Abs(n[1] - s.pos.gx) + Abs(n[2] - s.pos.gy)
          r == _step_to(s.occupants, eid, s.pos.gx, s.pos.gy, n[1], n[2])
          now == [s EXCEPT !.log = Append(@, [pos |-> s.pos, motion |-> s.motion,
                                              ap |-> s.ap, occupants |-> s.occupants,
                                              remaining |-> s.remaining])]
          moved == [now EXCEPT !.occupants = r.occupants,
                               !.pos.gx = n[1], !.pos.gy = n[2],
                               !.motion.path = Tail(@),
                               !.ap.current = Spend(@)]
          aborted == [now EXCEPT !.occupants = r.occupants,
                                 !.motion.path = <<>>]
      IN IF dist * TILE <= 1    \* dist <= EPS, EPS = 1.0 / TILE
           THEN IF ~r.ok THEN aborted
                ELSE MotionLoop(eid, moved)
           ELSE IF r.ok
                  THEN MotionLoop(eid, [moved EXCEPT !.remaining = @ - TicksPerSecond])
                  ELSE aborted

\* mutant of Snapshot: the interpolation fields are left as they were
Snapshot_None(pos) == pos

\* pos.px = pos.gx; pos.py = pos.gy
Snapshot(pos) == [pos EXCEPT !.px = pos.gx, !.py = pos.gy]

RECURSIVE MotionEach(_, _, _, _, _, _)
\* The for loop of MotionSystem.update over the rows of the view, from row i
\* on.  turns collects, per entity handled, the state before and after it.
MotionEach(ents, i, st, occ, dt, turns) ==
    IF i > Len(ents) THEN [stores |-> st, occupants |-> occ, turns |-> turns]
    ELSE
      LET eid == ents[i]
          pos == st["Position"][eid]
          motion == st["Motion"][eid]
          ap == st["AP"][eid]
          s == MotionLoop(eid, [pos |-> Snapshot(pos),
                                motion |-> motion, ap |-> ap, occupants |-> occ,
                                remaining |-> motion.speed_tps * dt, log |-> <<>>])
          st1 == [st EXCEPT !["Position"][eid] = s.pos,
                            !["Motion"][eid] = s.motion,
                            !["AP"][eid] = s.ap]
      IN MotionEach(ents, i + 1, st1, s.occupants, dt,
                    Append(turns, [entity |-> eid, budget |-> motion.speed_tps * dt,
                                   stores |-> st, occupants |-> occ,
                                   stores_after |-> st1, occupants_after |-> s.occupants,
                                   log |-> s.log]))

\* MotionSystem.update(dt): [stores, occupants, turns]
MotionUpdate(st, occ, dt) ==
    MotionEach(BuildView(st, <<"Position", "Motion", "AP">>).ents, 1, st, occ, dt, <<>>)

-----------------------------------------------------------------------------
(* MotionSystem.update on two entities that stand on a row of cells, each on *)
(* the cell the occupancy mapping gives it, with any queue and any AP.       *)

MotionW == 3

MaxQueue == 3

MaxAP == 2

Movers == {1, 2}

Queues == UNION {[1..n -> CellsOf(NewGrid(MotionW, 1))] : n \in 0..MaxQueue}

\* dt of one update: none, one fixed step, and the time of one, two and six tiles
Dts == {0, FIXED_DT, 10, 20, TicksPerSecond}

MotionInit ==
    /\ view_cache = EmptyMap
    /\ view_dirty = EmptyMap
    /\ comp_to_views = EmptyMap
    /\ cache_stats = [hits |-> 0, misses |-> 0]
    /\ grid = NewGrid(MotionW, 1)
    /\ visible = {}
    /\ explored = {}
    /\ ControllerIdle
    /\ calls = 0
    /\ ghost = 0
    /\ BusIdle
    /\ hist = NoHist
    /\ \E at \in [Movers -> CellsOf(NewGrid(MotionW, 1))],
          queue \in [Movers -> Queues], points \in [Movers -> 0..MaxAP] :
          /\ \A a, b \in Movers : a # b => at[a] # at[b]
          /\ stores = [Position |-> [e \in Movers |-> Position(at[e][1], at[e][2])],
                       Motion |-> [e \in Movers |-> [Motion EXCEPT !.path = queue[e]]],
                       AP |-> [e \in Movers |-> AP(points[e], MaxAP)]]
          /\ occupants = [c \in {at[e] : e \in Movers} |->
                            CHOOSE e \in Movers : at[e] = c]

MotionStep ==
    /\ hist = NoHist
    /\ \E dt \in Dts :
          LET r == MotionUpdate(stores, occupants, dt)
          IN /\ stores' = r.stores
             /\ occupants' = r.occupants
             /\ hist' = [op |-> "update", dt |-> dt, turns |-> r.turns]
    /\ UNCHANGED <<view_cache, view_dirty, comp_to_views, cache_stats,
                   grid, visible, explored, reachable, calls, ghost, busVars>>

MotionNext == MotionStep

SpecMotion == MotionInit /\ [][MotionNext]_vars

-----------------------------------------------------------------------------
(* Claims about MotionSystem.update *)

\* the turns of the update just made, one per entity handled
Turns == IF hist.op \in {"update", "step"} THEN Range(hist.turns) ELSE {}

CellOf(pos) == <<pos.gx, pos.gy>>

ClaimedByOther(occ, cell, e) == cell \in DOMAIN occ /\ occ[cell] # e

\* no component of an entity other than e differs between the two stores
OthersKept(before, after, e) ==
    /\ DOMAIN after = DOMAIN before
    /\ \A ct \in DOMAIN before :
          /\ DOMAIN after[ct] = DOMAIN before[ct]
          /\ \A o \in DOMAIN before[ct] \ {e} : after[ct][o] = before[ct][o]

\* C4: when update runs with a step budget of at least L tiles on an entity
\* whose queue holds L cells, whose AP.current is A and none of whose queued
\* cells is claimed by another entity, the entity moves through exactly the
\* first min(L, A) queued cells, AP.current decreases by min(L, A), the queue
\* keeps the other L - min(L, A) cells in order, and the occupancy mapping
\* holds the entity at its final position.
C4_MotionApLockstep ==
    \A t \in Turns :
        LET e == t.entity
            path == t.stores["Motion"][e].path
            L == Len(path)
            A == t.stores["AP"][e].current
            k == Min({L, A})
            final == CellOf(t.stores_after["Position"][e])
        IN (/\ t.budget >= L * TicksPerSecond
            /\ \A i \in 1..L : ~ClaimedByOther(t.occupants, path[i], e))
           => /\ [i \in 1..Len(t.log) |-> Head(t.log[i].motion.path)] = SubSeq(path, 1, k)
              /\ final = IF k = 0 THEN CellOf(t.stores["Position"][e]) ELSE path[k]
              /\ t.stores_after["AP"][e].current = A - k
              /\ t.stores_after["Motion"][e].path = SubSeq(path, k + 1, L)
              /\ final \in DOMAIN t.occupants_after
              /\ t.occupants_after[final] = e

\* an entity with three queued cells, none claimed by another, and two AP has
\* been moved two cells and keeps one cell queued
C4_Witness ==
    \E t \in Turns :
        LET e == t.entity
            path == t.stores["Motion"][e].path
        IN /\ Len(path) = 3
           /\ t.stores["AP"][e].current = 2
           /\ t.budget >= 3 * TicksPerSecond
           /\ \A i \in 1..3 : ~ClaimedByOther(t.occupants, path[i], e)
           /\ CellOf(t.stores["Position"][e]) # path[1]
           /\ CellOf(t.stores_after["Position"][e]) = path[2]
           /\ Len(t.stores_after["Motion"][e].path) = 1

\* the state of entity e and of the occupancy mapping after turn t is the one
\* in which iteration it of the loop started, but for the emptied queue
RestsAt(t, it) ==
    LET e == t.entity
    IN /\ CellOf(t.stores_after["Position"][e]) = CellOf(it.pos)
       /\ t.stores_after["AP"][e].current = it.ap.current
       /\ t.occupants_after = it.occupants
       /\ CellOf(it.pos) \in DOMAIN it.occupants
       /\ it.occupants[CellOf(it.pos)] = e
       /\ t.stores_after["Motion"][e].path = <<>>
       /\ OthersKept(t.stores, t.stores_after, e)

\* C6 as stated: whenever the next queued cell of an entity is claimed by a
\* different entity, update (with a positive dt) leaves the entity's position (gx, gy) and
\* AP.current unchanged, leaves the occupancy mapping as it was, empties the
\* entity's queue and changes no component of any other entity.
C6_ConflictAlwaysCancels ==
    \A t \in Turns :
        LET e == t.entity
            path == t.stores["Motion"][e].path
        IN (t.budget > 0 /\ path # <<>> /\ ClaimedByOther(t.occupants, Head(path), e))
           => RestsAt(t, [pos |-> t.stores["Position"][e], ap |-> t.stores["AP"][e],
                          occupants |-> t.occupants])

\* C6 (amended): whenever update attempts a step of an entity (it has step
\* budget and AP.current left) and the next queued cell is claimed by a
\* different entity, that attempt is the entity's last of the update, the
\* entity's position (gx, gy) and AP.current stay as they were before the
\* attempt, the occupancy mapping is exactly as before the attempt (the entity
\* owns its source cell), the entity's queue is empty, and no component of any
\* other entity has changed.
C6_AttemptedConflictCancels ==
    \A t \in Turns :
        \A i \in DOMAIN t.log :
            ClaimedByOther(t.log[i].occupants, Head(t.log[i].motion.path), t.entity)
            => i = Len(t.log) /\ RestsAt(t, t.log[i])

\* an entity has moved one cell and was then refused the next queued cell,
\* claimed by an entity that has a queue of its own, with cells still queued
\* behind the refused one
C6_Witness ==
    \E t \in Turns :
        /\ Len(t.log) = 2
        /\ Len(t.log[2].motion.path) >= 2
        /\ ClaimedByOther(t.log[2].occupants, Head(t.log[2].motion.path), t.entity)
        /\ CellOf(t.log[2].pos) # CellOf(t.log[1].pos)
        /\ \E o \in Movers \ {t.entity} : t.stores["Motion"][o].path # <<>>
        /\ t.stores_after["Motion"][t.entity].path = <<>>

-----------------------------------------------------------------------------
(* components.py, continued *)

DEFAULT_AP_MAX == 12

\* Renderable(radius_px)
Renderable(radius_px) == [radius_px |-> radius_px, color |-> <<255, 255, 255>>]

\* Faction(name)
Faction(name) == [name |-> name]

\* Selected(): an object without fields
Selected == [class |-> "Selected"]

\* PathPlan(): target None is the empty tuple
PathPlan == [target |-> <<>>, path |-> <<>>]

\* Patrol(waypoints)
Patrol(waypoints) == [waypoints |-> waypoints, idx |-> 0]

\* World.get(entity, comp_type) is not None
Has(st, e, ct) == ct \in DOMAIN st /\ e \in DOMAIN st[ct]

-----------------------------------------------------------------------------
(* The systems act on the World's stores, the Grid's occupancy and fog sets  *)
(* and the controller's reachable set; sim is a record of these.  A system   *)
(* reads a view as BuildView of the current stores: the rows of a view are   *)
(* references to the component objects, which the systems change in place.   *)

Sim == [stores |-> stores, occupants |-> occupants, visible |-> visible,
        explored |-> explored, reachable |-> reachable]

Becomes(sim) ==
    /\ stores' = sim.stores
    /\ occupants' = sim.occupants
    /\ visible' = sim.visible
    /\ explored' = sim.explored
    /\ reachable' = sim.reachable

\* mutant of Scheduled: the start cell is queued too
Scheduled_WithStart(st, e, path) ==
    LET st1 == IF ~Has(st, e, "Motion") THEN Stored(st, e, "Motion", Motion) ELSE st
    IN [st1 EXCEPT !["Motion"][e].path = path]

\* mutant of Scheduled: the waypoints queued before are kept
Scheduled_Append(st, e, path) ==
    LET st1 == IF ~Has(st, e, "Motion") THEN Stored(st, e, "Motion", Motion) ELSE st
    IN [st1 EXCEPT !["Motion"][e].path = @ \o Tail(path)]

\* motion.path.clear(); for step in path[1:]: motion.path.append(step), on
\* the Motion of entity e, added first if e has none
Scheduled(st, e, path) ==
    LET st1 == IF ~Has(st, e, "Motion") THEN Stored(st, e, "Motion", Motion) ELSE st
    IN [st1 EXCEPT !["Motion"][e].path = Tail(path)]

\* self.grid.reveal_from(...) then self._reachable = reachable_flood(...)
Surveyed(g, sim, pos, ap) ==
    LET seen == reveal_from(g, pos.gx, pos.gy, FOV_RADIUS)
    IN [sim EXCEPT !.visible = seen,
                   !.explored = Explored(@, seen),
                   !.reachable = reachable_flood(g, sim.occupants, <<pos.gx, pos.gy>>,
                                                 ap.current)]

-----------------------------------------------------------------------------
(* systems/controller.py: ControllerSystem *)

\* mutant of Deselected: the previous selection is not cleared
Deselected_Keep(st, eids, i) == st

RECURSIVE Deselected(_, _, _)
\* for eid in eids: self.world.remove(eid, Selected)
Deselected(st, eids, i) ==
    IF i > Len(eids) THEN st
    ELSE Deselected(Dropped(st, eids[i], "Selected"), eids, i + 1)

\* ControllerSystem._on_select(SelectEntity(entity))
_on_select(g, sim, entity) ==
    LET st1 == Deselected(sim.stores, BuildView(sim.stores, <<"Selected">>).ents, 1)
    IN IF ~Has(st1, entity, "Faction") \/ st1["Faction"][entity].name # "player"
         THEN [sim EXCEPT !.stores = st1]
         ELSE
           LET st2 == Stored(st1, entity, "Selected", Selected)
               st3 == IF ~Has(st2, entity, "AP")
                        THEN Stored(st2, entity, "AP", AP(DEFAULT_AP_MAX, DEFAULT_AP_MAX))
                        ELSE st2
               st4 == IF ~Has(st3, entity, "PathPlan")
                        THEN Stored(st3, entity, "PathPlan", PathPlan)
                        ELSE st3
               placed == Has(st3, entity, "Position")
               pos == st3["Position"][entity]
           IN IF placed
                THEN [Surveyed(g, sim, pos, st3["AP"][entity]) EXCEPT !.stores = st4]
                ELSE [sim EXCEPT !.stores = st4]

\* mutant of InReach: every cell passes for reachable
InReach_Always(sim, cell) == TRUE

\* the test of _on_hover and _on_move on the cached reachable set
InReach(sim, cell) == cell \in sim.reachable

\* mutant of Previewed: the start cell is kept in the preview
Previewed_WithStart(path) == path

\* path[1:] if len(path) > 1 else []
Previewed(path) == IF Len(path) > 1 THEN Tail(path) ELSE <<>>

\* ControllerSystem._on_hover(HoverTileChanged(x, y))
_on_hover(g, sim, x, y, scan) ==
    LET st == sim.stores
        eids == BuildView(st, <<"Selected", "Position", "AP", "PathPlan">>).ents
    IN IF eids = <<>> THEN sim
       ELSE
         LET eid == eids[1]
             pos == st["Position"][eid]
             ap == st["AP"][eid]
             path == astar(g, sim.occupants, <<pos.gx, pos.gy>>, <<x, y>>,
                           ap.current + 1, scan)
         IN IF ~InReach(sim, <<x, y>>)
              THEN [sim EXCEPT !.stores["PathPlan"][eid] = [target |-> <<>>, path |-> <<>>]]
              ELSE [sim EXCEPT !.stores["PathPlan"][eid] =
                        [target |-> <<x, y>>,
                         path |-> Previewed(path)]]

\* ControllerSystem._on_move(MoveCommand(entity, target))
_on_move(g, sim, entity, target, scan) ==
    LET st == sim.stores
        eids == BuildView(st, <<"Selected">>).ents
    IN IF eids = <<>> \/ eids[1] # entity THEN sim
       ELSE IF ~Has(st, entity, "Position") \/ ~Has(st, entity, "AP") THEN sim
       ELSE IF ~InReach(sim, target) THEN sim
       ELSE
         LET pos == st["Position"][entity]
             ap == st["AP"][entity]
             path == astar(g, sim.occupants, <<pos.gx, pos.gy>>, target,
                           ap.current + 1, scan)
             st1 == Scheduled(st, entity, path)
         IN IF Len(path) <= 1 THEN sim
            ELSE IF Has(st1, entity, "PathPlan")
                   THEN [sim EXCEPT !.stores = [st1 EXCEPT !["PathPlan"][entity] =
                                                   [target |-> <<>>, path |-> <<>>]]]
                   ELSE [sim EXCEPT !.stores = st1]

\* mutant of ControllerUpdate: nothing is refreshed
ControllerUpdate_Stale(g, sim) == sim

\* ControllerSystem.update()
ControllerUpdate(g, sim) ==
    LET st == sim.stores
        eids == BuildView(st, <<"Selected", "Position", "AP">>).ents
    IN IF eids = <<>> THEN sim
       ELSE Surveyed(g, sim, st["Position"][eids[1]], st["AP"][eids[1]])

-----------------------------------------------------------------------------
(* systems/ai.py: PatrolAI *)

RECURSIVE PatrolEach(_, _, _, _, _, _)
\* the for loop of PatrolAI.update over the rows of the view, from row i on
PatrolEach(g, occ, st, eids, i, scan) ==
    IF i > Len(eids) THEN st
    ELSE
      LET eid == eids[i]
          pos == st["Position"][eid]
          ap == st["AP"][eid]
          pat == st["Patrol"][eid]
          n == Len(pat.waypoints)
          first == pat.waypoints[(pat.idx % n) + 1]
          there == <<pos.gx, pos.gy>> = first
          idx == IF there THEN (pat.idx + 1) % n ELSE pat.idx
          target == IF there THEN pat.waypoints[idx + 1] ELSE first
          st1 == [st EXCEPT !["Patrol"][eid].idx = idx]
          path == astar(g, occ, <<pos.gx, pos.gy>>, target, ap.current + 1, scan)
      IN IF ap.current <= 0 \/ pat.waypoints = <<>>
           THEN PatrolEach(g, occ, st, eids, i + 1, scan)
           ELSE IF Len(path) <= 1
                  THEN PatrolEach(g, occ, st1, eids, i + 1, scan)
                  ELSE PatrolEach(g, occ, Scheduled(st1, eid, path), eids, i + 1, scan)

\* PatrolAI.update()
PatrolUpdate(g, sim, scan) ==
    [sim EXCEPT !.stores = PatrolEach(g, sim.occupants, sim.stores,
                              BuildView(sim.stores, <<"Position", "AP", "Patrol">>).ents,
                              1, scan)]

-----------------------------------------------------------------------------
(* app.py: build_world and GameScene.update, on a map scaled down from       *)
(* MAP_W x MAP_H = 40 x 25 and with StartAP for the AP(12, 12) of the units: *)
(* one wall cell, the player unit in the top-left corner and the enemy       *)
(* patroller in the opposite corner, walking the last column.                *)

MAP_W == 4

MAP_H == 3

StartAP == 3

Walls == {<<1, 1>>}

PlayerStart == <<0, 0>>

EnemyStart == <<MAP_W - 1, MAP_H - 1>>

Waypoints == <<EnemyStart, <<MAP_W - 1, 0>>>>

\* build_world(bus): the World (entities 1 and 2) and the Grid
build_world ==
    [stores |-> [Position |-> (1 :> Position(PlayerStart[1], PlayerStart[2]) @@
                               2 :> Position(EnemyStart[1], EnemyStart[2])),
                 Renderable |-> (1 :> Renderable(12) @@ 2 :> Renderable(12)),
                 Faction |-> (1 :> Faction("player") @@ 2 :> Faction("enemy")),
                 AP |-> (1 :> AP(StartAP, StartAP) @@ 2 :> AP(StartAP, StartAP)),
                 Patrol |-> (2 :> Patrol(Waypoints))],
     grid |-> Carve(NewGrid(MAP_W, MAP_H), Walls),
     occupants |-> occupy(occupy(EmptyMap, PlayerStart[1], PlayerStart[2], 1).occupants,
                          EnemyStart[1], EnemyStart[2], 2).occupants]

GameInit ==
    /\ stores = build_world.stores
    /\ grid = build_world.grid
    /\ occupants = build_world.occupants
    /\ visible = {}
    /\ explored = {}
    /\ ControllerIdle
    /\ view_cache = EmptyMap
    /\ view_dirty = EmptyMap
    /\ comp_to_views = EmptyMap
    /\ cache_stats = [hits |-> 0, misses |-> 0]
    /\ calls = 0
    /\ ghost = 0
    /\ BusIdle
    /\ hist = NoHist

\* the entities a command may name: the two units and one that does not exist
Named == 1..3

\* the tiles a command may name: the cells of the map and one outside it
Tiles == CellsOf(build_world.grid) \cup {<<-1, 0>>}

GameKeeps == UNCHANGED <<view_cache, view_dirty, comp_to_views, cache_stats,
                         grid, calls, ghost, busVars>>

\* bus.publish(SelectEntity(entity))
Select ==
    \E entity \in Named :
        /\ Becomes(_on_select(grid, Sim, entity))
        /\ hist' = [op |-> "select"]
        /\ GameKeeps

\* bus.publish(HoverTileChanged(x, y))
Hover ==
    \E tile \in Tiles, scan \in ScanOrders :
        /\ Becomes(_on_hover(grid, Sim, tile[1], tile[2], scan))
        /\ hist' = [op |-> "hover"]
        /\ GameKeeps

\* bus.publish(MoveCommand(entity, target))
Move ==
    \E entity \in Named, target \in Tiles, scan \in ScanOrders :
        /\ Becomes(_on_move(grid, Sim, entity, target, scan))
        /\ hist' = [op |-> "move"]
        /\ GameKeeps

\* mutant of Step: the Controller refresh runs before AI and Motion
Step_ControllerFirst ==
    \E scan \in ScanOrders :
        LET surveyed == ControllerUpdate(grid, Sim)
            planned == PatrolUpdate(grid, surveyed, scan)
            m == MotionUpdate(planned.stores, planned.occupants, FIXED_DT)
        IN /\ Becomes([planned EXCEPT !.stores = m.stores, !.occupants = m.occupants])
           /\ hist' = [op |-> "step", turns |-> m.turns]
           /\ GameKeeps

\* GameScene.update(FIXED_DT): AI -> Motion -> Controller
Step ==
    \E scan \in ScanOrders :
        LET planned == PatrolUpdate(grid, Sim, scan)
            m == MotionUpdate(planned.stores, planned.occupants, FIXED_DT)
            moved == [planned EXCEPT !.stores = m.stores, !.occupants = m.occupants]
        IN /\ Becomes(ControllerUpdate(grid, moved))
           /\ hist' = [op |-> "step", turns |-> m.turns]
           /\ GameKeeps

GameNext == Select \/ Hover \/ Move \/ Step

SpecGame == GameInit /\ [][GameNext]_vars

-----------------------------------------------------------------------------
(* Claims about the game *)

Units == DOMAIN stores["Position"]

Owned(occ, e) == {c \in DOMAIN occ : occ[c] = e}

\* C5: from the world of build_world, after any sequence of Select, Hover and
\* Move commands and simulation steps, each entity owns exactly one cell of
\* the occupancy mapping, that cell is its Position (gx, gy), and no two
\* entities share a position.
C5_PositionOccupancySync ==
    /\ \A e \in Units : Owned(occupants, e) = {CellOf(stores["Position"][e])}
    /\ \A a, b \in Units :
          a # b => CellOf(stores["Position"][a]) # CellOf(stores["Position"][b])

\* a step in which the player unit was refused the cell the patroller stood
\* on and the patroller then moved a cell, both away from where build_world
\* put them
C5_Witness ==
    /\ hist.op = "step"
    /\ CellOf(stores["Position"][1]) # PlayerStart
    /\ CellOf(stores["Position"][2]) # EnemyStart
    /\ \E t \in Turns :
          /\ t.entity = 1
          /\ t.log # <<>>
          /\ ClaimedByOther(t.log[1].occupants, Head(t.log[1].motion.path), 1)
    /\ \E t \in Turns :
          /\ t.entity = 2
          /\ CellOf(t.stores_after["Position"][2]) # CellOf(t.stores["Position"][2])

\* the state of entity e in which iteration i of turn t ended
IterationEnd(t, i) ==
    IF i < Len(t.log) THEN t.log[i + 1]
    ELSE [pos |-> t.stores_after["Position"][t.entity],
          motion |-> t.stores_after["Motion"][t.entity],
          ap |-> t.stores_after["AP"][t.entity]]

\* every iteration of MotionSystem's loop either takes one AP, moves the
\* entity to the 4-adjacent cell at the head of its queue and pops that cell,
\* or takes no AP and leaves the entity on its cell; a turn without iterations
\* changes neither
IterationsInLockstep ==
    \A t \in Turns :
        /\ t.log = <<>> =>
              /\ t.stores_after["AP"][t.entity] = t.stores["AP"][t.entity]
              /\ CellOf(t.stores_after["Position"][t.entity]) =
                    CellOf(t.stores["Position"][t.entity])
        /\ t.log # <<>> =>
              /\ t.log[1].ap = t.stores["AP"][t.entity]
              /\ CellOf(t.log[1].pos) = CellOf(t.stores["Position"][t.entity])
        /\ \A i \in DOMAIN t.log :
              LET from == t.log[i]
                  to == IterationEnd(t, i)
                  taken == from.ap.current - to.ap.current
              IN \/ /\ taken = 1
                    /\ CellOf(to.pos) = Head(from.motion.path)
                    /\ Manhattan(CellOf(from.pos), CellOf(to.pos)) = 1
                    /\ to.motion.path = Tail(from.motion.path)
                 \/ /\ taken = 0
                    /\ CellOf(to.pos) = CellOf(from.pos)

\* AP.current and the cell of an entity change in no command, and in a step
\* only as the entity's turn in MotionSystem.update changes them
ChangedByMotionOnly ==
    \A e \in Units :
        \/ /\ stores'["AP"][e] = stores["AP"][e]
           /\ CellOf(stores'["Position"][e]) = CellOf(stores["Position"][e])
        \/ /\ hist'.op = "step"
           /\ \E i \in DOMAIN hist'.turns :
                 LET t == hist'.turns[i]
                 IN /\ t.entity = e
                    /\ t.stores["AP"][e] = stores["AP"][e]
                    /\ CellOf(t.stores["Position"][e]) = CellOf(stores["Position"][e])
                    /\ t.stores_after["AP"][e] = stores'["AP"][e]
                    /\ CellOf(t.stores_after["Position"][e]) = CellOf(stores'["Position"][e])

\* C10: over any sequence of commands and simulation steps, every unit of AP
\* that MotionSystem takes from an entity goes with exactly one successful
\* move of that entity to a 4-adjacent cell and exactly one cell popped from
\* its queue; AP is never spent without the entity changing cell, and the
\* entity never changes cell without one AP being spent.
C10_ApMovementLockstep == [](IterationsInLockstep) /\ [][ChangedByMotionOnly]_vars

\* a step in which both units moved a cell and paid one AP each
C10_Witness ==
    /\ hist.op = "step"
    /\ \A e \in {1, 2} :
          \E t \in Turns :
              /\ t.entity = e
              /\ Len(t.log) = 1
              /\ t.stores_after["AP"][e].current = t.stores["AP"][e].current - 1
              /\ Manhattan(CellOf(t.stores["Position"][e]),
                           CellOf(t.stores_after["Position"][e])) = 1

\* C11: in every state reachable from build_world by Select, Hover and Move
\* commands and simulation steps, every AP component has
\* 0 <= AP.current <= AP.maximum.
C11_ApWithinBounds ==
    \A e \in DOMAIN stores["AP"] :
        /\ 0 <= stores["AP"][e].current
        /\ stores["AP"][e].current <= stores["AP"][e].maximum

\* the player unit has spent all of its AP in steps and the patroller some
C11_Witness ==
    /\ hist.op = "step"
    /\ stores["AP"][1].current = 0
    /\ stores["AP"][1].maximum > 0
    /\ stores["AP"][2].current < stores["AP"][2].maximum

-----------------------------------------------------------------------------
(* Grid.reveal_from and Grid.clear_fog, called in any order on a small map  *)
(* with at most MaxOpaque opaque cells, from origins on the map and one     *)
(* cell outside it.                                                         *)

FogW == 3

FogH == 2

MaxOpaque == 1

MaxRadius == 2

FogInit ==
    /\ WorldIdle
    /\ \E walls \in SUBSET CellsOf(NewGrid(FogW, FogH)) :
          /\ Cardinality(walls) <= MaxOpaque
          /\ grid = Carve(NewGrid(FogW, FogH), walls)
    /\ occupants = EmptyMap
    /\ visible = {}
    /\ explored = {}
    /\ ControllerIdle
    /\ calls = 0
    /\ ghost = 0
    /\ BusIdle
    /\ hist = NoHist

\* grid.reveal_from(x0, y0, radius)
FogReveal ==
    \E x0 \in (-1)..grid.w, y0 \in (-1)..grid.h, radius \in 0..MaxRadius :
        LET seen == reveal_from(grid, x0, y0, radius)
        IN /\ visible' = seen
           /\ explored' = Explored(explored, seen)
           /\ hist' = [op |-> "reveal_from"]
           /\ UNCHANGED <<worldVars, grid, occupants, reachable, calls, ghost, busVars>>

\* grid.clear_fog()
FogClear ==
    /\ visible' = {}
    /\ hist' = [op |-> "clear_fog"]
    /\ UNCHANGED <<worldVars, grid, occupants, explored, reachable, calls, ghost, busVars>>

FogNext == FogReveal \/ FogClear

SpecFog == FogInit /\ [][FogNext]_vars

\* C12: after any sequence of reveal_from and clear_fog calls, visible is a
\* subset of explored, and no call takes a cell out of explored, whether or
\* not the cell is still visible.
C12_FogMonotone == [](visible \subseteq explored) /\ [][explored \subseteq explored']_vars

\* after a reveal_from on a map with an opaque cell, some cells are visible,
\* a cell explored earlier is no longer visible, and a cell of the map has
\* never been seen
C12_Witness ==
    /\ hist.op = "reveal_from"
    /\ \E c \in CellsOf(grid) : is_opaque(grid, c[1], c[2])
    /\ visible # {}
    /\ explored \ visible # {}
    /\ CellsOf(grid) \ explored # {}

-----------------------------------------------------------------------------
(* More claims about World *)

\* the component objects that entity e holds now
Held(e) == {stores[ct][e] : ct \in {t \in DOMAIN stores : e \in DOMAIN stores[t]}}

\* C13: the entity tuple of every view result, cached or recomputed, is in
\* strictly ascending order of entity id (so without duplicates), there is one
\* row per entity, and every object of row i is a component of entity i,
\* whatever the order in which the components were added.
C13_ViewSortedAligned ==
    hist.op = "view" =>
        LET r == hist.result
        IN /\ \A i, j \in DOMAIN r.ents : i < j => r.ents[i] < r.ents[j]
           /\ DOMAIN r.rows = DOMAIN r.ents
           /\ \A k \in DOMAIN r.ents :
                 /\ Len(r.rows[k]) = Len(hist.types)
                 /\ \A i \in DOMAIN r.rows[k] : r.rows[k][i] \in Held(r.ents[k])

\* a view served from the cache lists entities 1 and 2, and entity 2 got its
\* component of some type of the view before entity 1 got its own
C13_Witness ==
    /\ hist.op = "view" /\ hist.hit
    /\ hist.result.ents = <<1, 2>>
    /\ \E ct \in Range(hist.types) : stores[ct][2] < stores[ct][1]

-----------------------------------------------------------------------------
(* More claims about astar *)

\* the result of the astar call just made is the path astar returns without
\* max_len, cut to its first max_len cells (the last of which is not goal) if
\* it has more, and whole if it has not
CutToMaxLen ==
    LET whole == astar(grid, occupants, hist.start, hist.goal, NoMaxLen, hist.scan)
    IN IF Len(whole) > hist.max_len
         THEN /\ hist.result = SubSeq(whole, 1, hist.max_len)
              /\ hist.result # <<>> => hist.result[Len(hist.result)] # hist.goal
         ELSE hist.result = whole

\* C14 as stated: for max_len >= 0, when the path astar returns without
\* max_len has more than max_len cells, astar with max_len returns exactly its
\* first max_len cells, and the last of them is not goal; when that path has
\* at most max_len cells, it is returned whole.
C14_TruncatesToMaxLen ==
    (hist.op = "astar" /\ hist.max_len >= 0) => CutToMaxLen

\* C14 (amended): the same for start # goal; for start = goal astar returns
\* the one-cell path <<start>> whatever max_len is, also for max_len = 0.
C14_TruncatesFoundPath ==
    (hist.op = "astar" /\ hist.max_len >= 0) =>
        IF hist.start = hist.goal THEN hist.result = <<hist.start>> ELSE CutToMaxLen

\* a path that makes a detour around a blocked cell was cut to its first two
\* cells
C14_Witness ==
    /\ hist.op = "astar"
    /\ hist.start \in CellsOf(grid)
    /\ hist.max_len = 2
    /\ Len(hist.result) = 2
    /\ hist.result[1] = hist.start
    /\ hist.result[2] # hist.goal
    /\ Len(astar(grid, occupants, hist.start, hist.goal, NoMaxLen, hist.scan)) >
          Manhattan(hist.start, hist.goal) + 1

(* ---- More claims about Grid ---- *)

\* the call just made was vacate(cell, e) on a cell that e owned
VacatedByOwner ==
    /\ hist.op = "vacate"
    /\ hist.cell \in DOMAIN hist.before
    /\ hist.before[hist.cell] = hist.entity

\* vacate by the owner removes that one claim and leaves every other claim;
\* any other vacate leaves the mapping as it was; after a vacate by the owner
\* the cell can be claimed by every entity
VacateEffect ==
    hist.op = "vacate" =>
        IF VacatedByOwner
          THEN /\ DOMAIN occupants = DOMAIN hist.before \ {hist.cell}
               /\ \A c \in DOMAIN occupants : occupants[c] = hist.before[c]
               /\ \A b \in Claimants : occupy(occupants, hist.cell[1], hist.cell[2], b).ok
          ELSE occupants = hist.before

\* a cell owned by a stays owned by a, and every occupy of it by another
\* entity returns false, in every call but vacate(cell, a)
OwnedUntilVacated ==
    \A c \in DOMAIN occupants :
        LET a == occupants[c]
        IN ~(hist'.op = "vacate" /\ hist'.cell = c /\ hist'.entity = a) =>
              /\ c \in DOMAIN occupants'
              /\ occupants'[c] = a
              /\ (hist'.op = "occupy" /\ hist'.cell = c /\ hist'.entity # a) => ~hist'.ret

\* C15: vacate(cell, e) removes the claim on the cell only when the cell is
\* owned by exactly e, and otherwise leaves the occupancy mapping unchanged;
\* after a successful occupy(c, a), occupy(c, b) with b # a fails until
\* vacate(c, a) is called, after which occupy(c, b) succeeds.
C15_VacateOwnerOnly == [](VacateEffect) /\ [][OwnedUntilVacated]_vars

\* an owner has vacated its cell while the other entity holds another cell
C15_Witness ==
    /\ VacatedByOwner
    /\ hist.cell \notin DOMAIN occupants
    /\ \E c \in DOMAIN occupants : occupants[c] # hist.entity

(* ---- More claims about World ---- *)

\* entity e holds no component of any type
Gone(e) == \A ct \in CompTypes : get(stores, e, ct) = 0

\* after destroy(e), get(e, T) is absent for every T
DestroyedIsGone == hist.op = "destroy" => Gone(hist.entity)

\* no view call, a hit or a miss, returns an entity that holds no component
ViewSkipsGone ==
    hist.op = "view" => \A k \in DOMAIN hist.result.ents : ~Gone(hist.result.ents[k])

\* an entity that holds no component holds none after every call but an add to
\* it, and a destroy leaves the components of every other entity as they were
GoneUntilAdded ==
    /\ \A e \in Entities :
          (Gone(e) /\ ~(hist'.op = "add" /\ hist'.entity = e)) => Gone(e)'
    /\ hist'.op = "destroy" =>
          \A o \in Entities \ {hist'.entity}, ct \in CompTypes :
              get(stores', o, ct) = get(stores, o, ct)

\* C16: after destroy(e), get(e, T) is absent for every component type T and no
\* later view returns e until a component is added to e again, also a view whose
\* result was cached before the destroy; the components of all other entities
\* are unchanged.
C16_DestroyRemovesEverywhere ==
    [](DestroyedIsGone /\ ViewSkipsGone) /\ [][GoneUntilAdded]_vars

\* an entity that held both components and is listed in a cached result has
\* just been destroyed, while the other entity keeps a component
C16_Witness ==
    /\ hist.op = "destroy"
    /\ hist.types = CompTypes
    /\ \E key \in DOMAIN view_cache :
          /\ hist.entity \in Range(view_cache[key].ents)
          /\ view_dirty[key]
    /\ \E o \in Entities \ {hist.entity} : ~Gone(o)

-----------------------------------------------------------------------------
(* SelectEntity published in any order on worlds of up to three entities of  *)
(* any faction: the world of build_world with the Faction of each unit drawn *)
(* from FactionNames, and a third entity that has a Faction (or none) only   *)

FactionNames == {"player", "enemy"}

\* the Faction stores: each of the entities Named has a faction or none
FactionStores ==
    LET names == UNION {[held -> FactionNames] : held \in SUBSET Named}
    IN {[e \in DOMAIN n |-> Faction(n[e])] : n \in names}

SelectInit ==
    /\ \E f \in FactionStores : stores = [build_world.stores EXCEPT !.Faction = f]
    /\ grid = build_world.grid
    /\ occupants = build_world.occupants
    /\ visible = {}
    /\ explored = {}
    /\ ControllerIdle
    /\ view_cache = EmptyMap
    /\ view_dirty = EmptyMap
    /\ comp_to_views = EmptyMap
    /\ cache_stats = [hits |-> 0, misses |-> 0]
    /\ calls = 0
    /\ ghost = 0
    /\ BusIdle
    /\ hist = NoHist

\* bus.publish(SelectEntity(entity)), the entity named kept for the claims
SelectNamed ==
    \E entity \in Named :
        /\ Becomes(_on_select(grid, Sim, entity))
        /\ hist' = [op |-> "select", entity |-> entity]
        /\ GameKeeps

SelectNext == SelectNamed

SpecSelect == SelectInit /\ [][SelectNext]_vars

\* the entities that carry the Selected tag
SelectedSet == DOMAIN StoreOf(stores, "Selected")

IsPlayer(e) == Has(stores, e, "Faction") /\ stores["Faction"][e].name = "player"

\* C17 (selection invariant): after any sequence of Select commands at most one
\* entity carries the Selected tag and that entity is of the player faction;
\* immediately after Select(e) the set of Selected entities is {e} if e is of
\* the player faction and is empty otherwise.
C17_SingleSelection ==
    /\ Cardinality(SelectedSet) <= 1
    /\ \A e \in SelectedSet : IsPlayer(e)
    /\ hist.op = "select" =>
          SelectedSet = IF IsPlayer(hist.entity) THEN {hist.entity} ELSE {}

\* a player unit has been selected while another player unit, selected before
\* it (it has a PathPlan from then), no longer is
C17_Witness ==
    /\ hist.op = "select"
    /\ SelectedSet = {hist.entity}
    /\ \E o \in Named \ {hist.entity} : IsPlayer(o) /\ Has(stores, o, "PathPlan")

-----------------------------------------------------------------------------
(* Claims about the commands of the game *)

\* the preview of a PathPlan with no path and no target
NoPreview == [target |-> <<>>, path |-> <<>>]

\* Move(e, t) names the selected entity and a cell of the cached reachable set
MoveAccepted(e, t) == SelectedSet = {e} /\ t \in reachable

\* astar(position, t, max_len = AP.current + 1) for entity e
RouteOf(e, t, scan) ==
    astar(grid, occupants, CellOf(stores["Position"][e]), t,
          stores["AP"][e].current + 1, scan)

\* C18: Move(entity, target) changes state only if entity is the selected
\* entity and target is in the cached reachable set; in that case, if
\* astar(position, target, max_len = AP.current + 1) has more than one cell, the
\* entity's Motion queue becomes exactly that path without its first cell
\* (waypoints queued before are discarded, the Motion component is created if
\* absent) and the entity's PathPlan path and target are cleared.
C18_MoveCommand ==
    \A e \in Named, t \in Tiles, scan \in ScanOrders :
        LET after == _on_move(grid, Sim, e, t, scan)
        IN /\ after # Sim => MoveAccepted(e, t)
           /\ (MoveAccepted(e, t) /\ Len(RouteOf(e, t, scan)) > 1) =>
                 /\ Has(after.stores, e, "Motion")
                 /\ after.stores["Motion"][e].path = Tail(RouteOf(e, t, scan))
                 /\ after.stores["PathPlan"][e] = NoPreview

\* a Move has queued a route of two steps or more for the selected unit, which
\* has not started on it, and has cleared its preview
C18_Witness ==
    /\ hist.op = "move"
    /\ SelectedSet = {1}
    /\ Has(stores, 1, "Motion")
    /\ Len(stores["Motion"][1].path) >= 2
    /\ stores["Motion"][1].path[Len(stores["Motion"][1].path)] \in reachable
    /\ stores["PathPlan"][1] = NoPreview

\* the preview state: the PathPlan (path and target) of every entity
PreviewState(sim) == StoreOf(sim.stores, "PathPlan")

\* the motion state: Motion queue, Position and AP of every entity, and the
\* occupancy mapping
MotionState(sim) ==
    [motion |-> StoreOf(sim.stores, "Motion"),
     position |-> StoreOf(sim.stores, "Position"),
     ap |-> StoreOf(sim.stores, "AP"),
     occupants |-> sim.occupants]

\* a rejected Move leaves the preview state and the motion state as they were
RejectedMoveIgnored ==
    \A e \in Named, t \in Tiles, scan \in ScanOrders :
        ~MoveAccepted(e, t) =>
            LET after == _on_move(grid, Sim, e, t, scan)
            IN /\ PreviewState(after) = PreviewState(Sim)
               /\ MotionState(after) = MotionState(Sim)

\* C19 as stated: a rejected hover or move (one that references a cell outside
\* the cached reachable set, or a move for an entity that is not the selected
\* one) leaves the preview state and the motion state of every entity
\* unchanged.
C19_RejectedChangesNothing ==
    /\ RejectedMoveIgnored
    /\ \A t \in Tiles \ reachable, scan \in ScanOrders :
          LET after == _on_hover(grid, Sim, t[1], t[2], scan)
          IN /\ PreviewState(after) = PreviewState(Sim)
             /\ MotionState(after) = MotionState(Sim)

\* C19 (amended): a rejected move leaves the preview state and the motion state
\* of every entity unchanged; a rejected hover leaves the motion state of every
\* entity and the preview state of every entity but the selected one
\* unchanged, and clears the PathPlan path and target of the selected entity.
C19_RejectedHoverClearsPreview ==
    /\ RejectedMoveIgnored
    /\ \A t \in Tiles \ reachable, scan \in ScanOrders :
          LET after == _on_hover(grid, Sim, t[1], t[2], scan)
          IN /\ MotionState(after) = MotionState(Sim)
             /\ DOMAIN PreviewState(after) = DOMAIN PreviewState(Sim)
             /\ \A e \in DOMAIN PreviewState(Sim) :
                   PreviewState(after)[e] =
                       IF e \in SelectedSet THEN NoPreview ELSE PreviewState(Sim)[e]

\* a hover outside the reachable set has just been answered (an accepted hover
\* leaves a target) while the selected unit has waypoints queued
C19_Witness ==
    /\ hist.op = "hover"
    /\ SelectedSet = {1}
    /\ stores["PathPlan"][1] = NoPreview
    /\ Has(stores, 1, "Motion")
    /\ stores["Motion"][1].path # <<>>
    /\ Tiles \ reachable # {}

\* a path without its first cell
Rest(path) == IF path = <<>> THEN <<>> ELSE Tail(path)

\* C20: for the selected entity, Hover(cell) with cell outside the cached
\* reachable set sets the PathPlan path to empty and its target to none; with
\* cell inside the reachable set it sets the target to cell and the preview
\* path to astar(position, cell, max_len = AP.current + 1) without its first
\* cell. Hover never changes any Motion queue, Position, AP or the occupancy
\* mapping.
C20_HoverCommand ==
    \A t \in Tiles, scan \in ScanOrders :
        LET after == _on_hover(grid, Sim, t[1], t[2], scan)
        IN /\ MotionState(after) = MotionState(Sim)
           /\ \A e \in SelectedSet :
                 after.stores["PathPlan"][e] =
                     IF t \in reachable
                       THEN [target |-> t, path |-> Rest(RouteOf(e, t, scan))]
                       ELSE NoPreview

\* a hover has stored a preview of two cells or more that ends at its target,
\* while the selected unit has waypoints queued
C20_Witness ==
    /\ hist.op = "hover"
    /\ SelectedSet = {1}
    /\ stores["PathPlan"][1].target \in reachable
    /\ Len(stores["PathPlan"][1].path) >= 2
    /\ stores["PathPlan"][1].path[Len(stores["PathPlan"][1].path)] =
          stores["PathPlan"][1].target
    /\ Has(stores, 1, "Motion")
    /\ stores["Motion"][1].path # <<>>

-----------------------------------------------------------------------------
(* Claims about the simulation step *)

\* the turn of entity e in the step just made moved it to another cell
MovedInStep(e) ==
    \E t \in Turns :
        /\ t.entity = e
        /\ CellOf(t.stores_after["Position"][e]) # CellOf(t.stores["Position"][e])

\* C21 (per-step refresh ordering): a step runs patrol AI, then Motion, then
\* the Controller refresh, so at the end of every step in which an entity holds
\* Selected (with Position and AP) the cached reachable set equals
\* reachable_flood from that entity's position, AP.current and the occupancy
\* mapping as Motion left them, and visible equals the reveal from that
\* position.
C21_RefreshAfterMotion ==
    hist.op = "step" =>
        \A e \in SelectedSet :
            (Has(stores, e, "Position") /\ Has(stores, e, "AP")) =>
                LET pos == stores["Position"][e]
                IN /\ reachable = reachable_flood(grid, occupants, CellOf(pos),
                                                  stores["AP"][e].current)
                   /\ visible = reveal_from(grid, pos.gx, pos.gy, FOV_RADIUS)

\* a step in which the selected unit and the patroller both moved
C21_Witness ==
    /\ hist.op = "step"
    /\ SelectedSet = {1}
    /\ MovedInStep(1)
    /\ MovedInStep(2)

-----------------------------------------------------------------------------
(* The queries of Grid on every small map, for coordinates on the map and    *)
(* in a margin around it: one query per behaviour                            *)

SightW == 3

SightH == 3

MaxWalls == 2

Margin == 1

\* the coordinate pairs a query may name
Coords == ((-Margin)..(SightW - 1 + Margin)) \X ((-Margin)..(SightH - 1 + Margin))

SightInit ==
    /\ WorldIdle
    /\ \E walls \in SUBSET CellsOf(NewGrid(SightW, SightH)) :
          /\ Cardinality(walls) <= MaxWalls
          /\ grid = Carve(NewGrid(SightW, SightH), walls)
    /\ \E occ \in {EmptyMap, occupy(EmptyMap, 0, 0, 1).occupants} : occupants = occ
    /\ visible = {}
    /\ explored = {}
    /\ ControllerIdle
    /\ calls = 0
    /\ ghost = 0
    /\ BusIdle
    /\ hist = NoHist

\* is_walkable(x, y), is_blocked(x, y) and is_opaque(x, y)
Probe ==
    \E c \in Coords :
        /\ hist = NoHist
        /\ hist' = [op |-> "probe", cell |-> c,
                    walkable |-> is_walkable(grid, occupants, c[1], c[2]),
                    blocked |-> is_blocked(grid, c[1], c[2]),
                    opaque |-> is_opaque(grid, c[1], c[2]),
                    reads |-> EntriesRead(grid, c[1], c[2])]
        /\ UNCHANGED <<worldVars, gridVars, reachable, calls, ghost, busVars>>

\* has_los(x0, y0, x1, y1), with the cells bresenham yields
Look ==
    \E a \in Coords, b \in Coords :
        /\ hist = NoHist
        /\ hist' = [op |-> "has_los", a |-> a, b |-> b,
                    line |-> bresenham(a[1], a[2], b[1], b[2]),
                    ret |-> has_los(grid, a[1], a[2], b[1], b[2]),
                    reads |-> LosReads(grid, a[1], a[2], b[1], b[2])]
        /\ UNCHANGED <<worldVars, gridVars, reachable, calls, ghost, busVars>>

SightNext == Probe \/ Look

SpecSight == SightInit /\ [][SightNext]_vars

(* ---- Claims about the queries ---- *)

\* C22: for every coordinate pair outside the grid (negative coordinates too)
\* is_walkable returns false, is_blocked returns true and is_opaque returns
\* true; has_los between any two coordinate pairs returns a boolean; and none
\* of them reads a terrain matrix entry outside the grid.
C22_OutOfBoundsSafe ==
    /\ hist.op \in {"probe", "has_los"} => hist.reads \subseteq CellsOf(grid)
    /\ (hist.op = "probe" /\ hist.cell \notin CellsOf(grid)) =>
          /\ hist.walkable = FALSE
          /\ hist.blocked = TRUE
          /\ hist.opaque = TRUE
          /\ hist.reads = {}
    /\ hist.op = "has_los" => hist.ret \in BOOLEAN

\* sight was refused between two cells outside the grid because the line
\* between them leaves the grid again
C22_Witness ==
    /\ hist.op = "has_los"
    /\ hist.a \notin CellsOf(grid)
    /\ hist.b \notin CellsOf(grid)
    /\ hist.ret = FALSE
    /\ hist.reads = {}

(* ---- More claims about reachable_flood and astar ---- *)

\* the terrain matrices, the occupancy mapping and the fog sets are the same
\* after a call of reachable_flood or astar as before it
GridKeptByPathing ==
    hist'.op \in {"reachable_flood", "astar"} =>
        /\ grid' = grid
        /\ occupants' = occupants
        /\ visible' = visible
        /\ explored' = explored

\* C23 (pathing purity): reachable_flood and astar leave the grid unchanged:
\* terrain matrices, occupancy mapping, visible and explored sets are the same
\* after the call as before, for every input, unreachable and out-of-bounds
\* goals included.
C23_PathingPure == [][GridKeptByPathing]_vars

\* astar was asked for a goal outside the grid, on a map with a wall and an
\* occupied cell, and found no path
C23_Witness ==
    /\ hist.op = "astar"
    /\ hist.goal \notin CellsOf(grid)
    /\ hist.start \in CellsOf(grid)
    /\ hist.result = <<>>
    /\ occupants # EmptyMap
    /\ \E c \in CellsOf(grid) : is_blocked(grid, c[1], c[2])

\* C24 (motion snapshot): after every MotionSystem.update, for each entity
\* that has Position, Motion and AP, the interpolation fields (px, py) equal
\* the grid coordinates (gx, gy) the entity had at the beginning of that
\* update, whether or not it moved during the update.
C24_SnapshotBeforeMove ==
    hist.op = "step" =>
        \A i \in DOMAIN hist.turns :
            LET e == hist.turns[i].entity
                before == hist.turns[1].stores["Position"][e]
                after == stores["Position"][e]
            IN /\ after.px = before.gx
               /\ after.py = before.gy
               /\ ~MovedInStep(e) => (after.px = after.gx /\ after.py = after.gy)

\* a step in which the player unit moved, so that its (px, py) is the cell it
\* left, and the patroller, away from its first cell, had its turn without
\* moving
C24_Witness ==
    /\ hist.op = "step"
    /\ MovedInStep(1)
    /\ CellOf(stores["Position"][1]) # <<stores["Position"][1].px, stores["Position"][1].py>>
    /\ \E t \in Turns : t.entity = 2
    /\ ~MovedInStep(2)
    /\ CellOf(stores["Position"][2]) # EnemyStart

\* the cell is outside the grid or its entry in the opaque matrix is set
OpaqueCell(c) == c \notin CellsOf(grid) \/ grid.opaque[c[2]][c[1]]

\* the two cells are the same or touch, by a side or by a corner
Touching(a, b) == Abs(a[1] - b[1]) <= 1 /\ Abs(a[2] - b[2]) <= 1

\* C25 (line of sight): bresenham from a to b terminates, yielding a first and
\* b last, and has_los(a, b) is true if and only if no cell yielded other than
\* a and b is opaque (out-of-bounds counting as opaque); in particular has_los
\* is true when a = b or a and b are adjacent, whether or not a or b is
\* opaque.
C25_LineOfSight ==
    hist.op = "has_los" =>
        /\ hist.line # <<>>
        /\ hist.line[1] = hist.a
        /\ hist.line[Len(hist.line)] = hist.b
        /\ hist.ret <=> \A c \in Range(hist.line) \ {hist.a, hist.b} : ~OpaqueCell(c)
        /\ Touching(hist.a, hist.b) => hist.ret

\* sight between two opaque cells of the map, two cells apart
C25_Witness ==
    /\ hist.op = "has_los"
    /\ hist.ret
    /\ hist.a \in CellsOf(grid) /\ OpaqueCell(hist.a)
    /\ hist.b \in CellsOf(grid) /\ OpaqueCell(hist.b)
    /\ Len(hist.line) >= 3

(* ---- More claims about the fog of war ---- *)

\* the origins of reveal_from: the cells of the map and a margin around it
FogOrigins == ((-1)..FogW) \X ((-1)..FogH)

\* the in-bounds cells within radius of the origin (squared Euclidean
\* distance) that have line of sight to it
InSight(origin, radius) ==
    {c \in CellsOf(grid) :
        /\ (c[1] - origin[1]) * (c[1] - origin[1]) +
           (c[2] - origin[2]) * (c[2] - origin[2]) <= radius * radius
        /\ has_los(grid, origin[1], origin[2], c[1], c[2])}

\* the cells reveal_from makes visible are exactly those in sight
RevealExact ==
    \A origin \in FogOrigins, radius \in 0..MaxRadius :
        reveal_from(grid, origin[1], origin[2], radius) = InSight(origin, radius)

\* a reveal_from replaces visible by the cells in sight of some origin and
\* adds them to explored
RevealReplaces ==
    hist'.op = "reveal_from" =>
        /\ \E origin \in FogOrigins, radius \in 0..MaxRadius :
              visible' = InSight(origin, radius)
        /\ explored' = explored \cup visible'

\* C26 (field of view): after reveal_from(origin, radius) with radius >= 0,
\* visible is exactly the set of in-bounds cells whose squared Euclidean
\* distance to origin is at most radius squared and that have line of sight to
\* origin (nothing of the previous visible set survives unless it qualifies
\* again), and explored is the previous explored set united with the new
\* visible set.
C26_FieldOfView == [](RevealExact) /\ [][RevealReplaces]_vars

\* a reveal_from has left visible a set that lacks a cell visible before and a
\* cell within its radius hidden behind the opaque cell
C26_Witness ==
    /\ hist.op = "reveal_from"
    /\ visible # {}
    /\ explored \ visible # {}
    /\ \E origin \in CellsOf(grid), c \in CellsOf(grid) :
          /\ visible = InSight(origin, MaxRadius)
          /\ (c[1] - origin[1]) * (c[1] - origin[1]) +
             (c[2] - origin[2]) * (c[2] - origin[2]) <= MaxRadius * MaxRadius
          /\ ~has_los(grid, origin[1], origin[2], c[1], c[2])

(* ---- The tie-break of astar ---- *)

\* The search of astar with the frontier kept in insertion order: among the
\* frontier cells of minimal f, the one inserted first is expanded.
FirstInserted(open, f) ==
    LET fv(p) == IF p \in DOMAIN f THEN f[p] ELSE UnknownF
        i == CHOOSE k \in DOMAIN open :
                \A j \in DOMAIN open :
                    fv(open[k]) < fv(open[j]) \/ (fv(open[k]) = fv(open[j]) /\ k <= j)
    IN open[i]

Without(open, p) == SelectSeq(open, LAMBDA q : q # p)

RECURSIVE InsertedRelax(_, _, _, _, _, _, _)
InsertedRelax(g, occ, start, goal, current, ns, st) ==
    IF ns = <<>> THEN st
    ELSE LET n == Head(ns)
             tentative == st.g[current] + 1
             known == IF n \in DOMAIN st.g THEN st.g[n] ELSE UnknownG
         IN IF AstarPassable(g, occ, start, goal, n) /\ tentative < known
              THEN InsertedRelax(g, occ, start, goal, current, Tail(ns),
                     [open |-> IF n \in Range(st.open) THEN st.open
                               ELSE Append(st.open, n),
                      came_from |-> Put(st.came_from, n, current),
                      g |-> Put(st.g, n, tentative),
                      f |-> Put(st.f, n, tentative + Manhattan(goal, n))])
              ELSE InsertedRelax(g, occ, start, goal, current, Tail(ns), st)

RECURSIVE InsertedLoop(_, _, _, _, _)
InsertedLoop(g, occ, start, goal, st) ==
    IF st.open = <<>> THEN <<>>
    ELSE LET current == FirstInserted(st.open, st.f)
         IN IF current = goal THEN Reverse(Reconstruct(st.came_from, current))
            ELSE InsertedLoop(g, occ, start, goal,
                   InsertedRelax(g, occ, start, goal, current,
                                 neighbors4(g, current[1], current[2]),
                                 [st EXCEPT !.open = Without(@, current)]))

\* the path astar returns if ties are broken by insertion order
InsertionOrdered(g, occ, start, goal, max_len) ==
    IF start = goal THEN <<start>>
    ELSE IF ~in_bounds(g, goal[1], goal[2]) \/ ~g.walkable[goal[2]][goal[1]] THEN <<>>
    ELSE LET found == InsertedLoop(g, occ, start, goal,
                        [open |-> <<start>>,
                         came_from |-> EmptyMap,
                         g |-> Put(EmptyMap, start, 0),
                         f |-> Put(EmptyMap, start, Manhattan(goal, start))])
         IN IF found = <<>> THEN found ELSE Truncate(found, max_len)

\* C27 (tie-breaking): among frontier nodes of equal minimal f, astar expands
\* the one that was inserted into the frontier first, so that for a given
\* grid, occupancy, start and goal the returned path is always the same
\* sequence of cells: the one found with the frontier in insertion order.
C27_TieBreakInsertionOrdered ==
    hist.op = "astar" =>
        hist.result = InsertionOrdered(grid, occupants, hist.start, hist.goal, hist.max_len)

WalkFrom(from, queue) ==
    /\ \A i \in DOMAIN queue :
          /\ queue[i] \in CellsOf(grid)
          /\ grid.walkable[queue[i][2]][queue[i][1]]
          /\ Manhattan(IF i = 1 THEN from ELSE queue[i - 1], queue[i]) = 1

QueuesWellFormed ==
    \A e \in DOMAIN StoreOf(stores, "Motion") :
        WalkFrom(CellOf(stores["Position"][e]), stores["Motion"][e].path)

\* an entity stays on its cell or moves to a 4-adjacent cell of walkable terrain
OneTileAtATime ==
    \A e \in Units :
        LET from == CellOf(stores["Position"][e])
            to == CellOf(stores'["Position"][e])
        IN to # from =>
              /\ Manhattan(from, to) = 1
              /\ ~is_blocked(grid, to[1], to[2])

\* C29 (Motion queue well-formedness): in every state reachable from
\* build_world by Select, Hover and Move commands and simulation steps, each
\* non-empty Motion queue is a 4-connected walk over in-bounds,
\* terrain-walkable cells whose first cell is 4-adjacent to (and different
\* from) the entity's current Position; hence an entity only ever moves one
\* tile at a time onto walkable terrain and never teleports.
C29_QueuesAreWalks == [](QueuesWellFormed) /\ [][OneTileAtATime]_vars

\* a step in which the player unit took the first tile of a route and has two
\* tiles or more left to go, while the patroller has a queue too
C29_Witness ==
    /\ hist.op = "step"
    /\ MovedInStep(1)
    /\ Len(stores["Motion"][1].path) >= 2
    /\ Has(stores, 2, "Motion")
    /\ stores["Motion"][2].path # <<>>

RECURSIVE SumAP(_, _)
\* the sum of AP.current over the entities es
SumAP(ap, es) ==
    IF es = {} THEN 0
    ELSE LET e == CHOOSE x \in es : TRUE
         IN ap[e].current + SumAP(ap, es \ {e})

TotalAP == SumAP(stores["AP"], DOMAIN stores["AP"])

\* AP.current of an existing AP component never increases, and every change
\* of a Position cell or of an occupancy entry takes AP
MovesTakeAP ==
    /\ \A e \in DOMAIN stores["AP"] :
          /\ e \in DOMAIN stores'["AP"]
          /\ stores'["AP"][e].current <= stores["AP"][e].current
    /\ DOMAIN stores'["AP"] = DOMAIN stores["AP"]
    /\ ((\E e \in Units : CellOf(stores'["Position"][e]) # CellOf(stores["Position"][e]))
        \/ occupants' # occupants) => TotalAP' < TotalAP

\* no Position and no occupancy entry changes
AtRest == UNCHANGED <<stores["Position"], occupants>>

\* C30 (eventual quiescence): AP.current of an existing AP component never
\* increases in any step or command, every entity move takes AP, so only
\* finitely many moves occur (at most the sum of the AP granted), and from some
\* step on no Position and no occupancy entry ever changes again.
C30_EventualQuiescence ==
    /\ [](TotalAP >= 0 /\ TotalAP <= 2 * StartAP)
    /\ [][MovesTakeAP]_vars
    /\ <>[][AtRest]_vars

\* both units have spent all their AP and stand away from their first cells
C30_Witness ==
    /\ hist.op = "step"
    /\ TotalAP = 0
    /\ CellOf(stores["Position"][1]) # PlayerStart
    /\ CellOf(stores["Position"][2]) # EnemyStart

(* ---- The symmetry of sight ---- *)

\* the cells that reveal_from(origin, radius) makes visible
Revealed(origin, radius) == reveal_from(grid, origin[1], origin[2], radius)

\* C31: line of sight is symmetric: for every opacity map and every pair of
\* cells a and b, has_los(a, b) equals has_los(b, a), so the cells revealed
\* from an origin are exactly the cells from which the origin would be
\* revealed within the same radius.
C31_SightSymmetric ==
    /\ (hist.op = "has_los" /\ hist.a \in CellsOf(grid) /\ hist.b \in CellsOf(grid)) =>
          hist.ret = has_los(grid, hist.b[1], hist.b[2], hist.a[1], hist.a[2])
    /\ \A origin \in CellsOf(grid), radius \in 0..MaxRadius :
          Revealed(origin, radius) =
             {c \in CellsOf(grid) : origin \in Revealed(c, radius)}

-----------------------------------------------------------------------------
(* EventBus. publish calls the handlers subscribed to the event's type one  *)
(* after the other, and a handler may call the bus again before it returns  *)
(* or raises: a publish in progress is an entry of dispatch, and the call   *)
(* of a handler, its return and its exception are steps of their own.       *)
(* Handlers raise subclasses of Exception, the ones publish catches.        *)

MaxSubs == 2

MaxDepth == 2

MaxPublish == 3

\* the handlers passed to the bus: a plain function and a bound method
Handlers == {"on_event", "scene.on_event"}

\* isinstance(handler, types.MethodType)
IsMethod(handler) == handler = "scene.on_event"

\* the callback of a dead WeakMethod, and unsubscribe's absent handler
None == "None"

\* unsubscribe's absent handle_id (the handle ids start at 1)
NoHandle == 0

\* subscribe's wrapped: a WeakMethod for a bound method subscribed weakly
\* (dead once its object has been collected), else the handler itself
Wrapped(handler, weak) ==
    [handler |-> handler, weak |-> weak /\ IsMethod(handler), dead |-> FALSE]

\* wrapped() if isinstance(wrapped, weakref.WeakMethod) else wrapped
Callback(wrapped) == IF wrapped.weak /\ wrapped.dead THEN None ELSE wrapped.handler

\* the handle ids of a list of subscriptions
IdsOf(list) == {list[i].id : i \in DOMAIN list}

\* a call of the bus comes from outside any publish or from a handler that
\* a publish is calling
Top == dispatch[Len(dispatch)]

Callable == IF dispatch = <<>> THEN TRUE ELSE Top.running

\* the innermost publish in progress replaced by frame
Resume(frame) == [dispatch EXCEPT ![Len(dispatch)] = frame]

\* the publish calls in progress without the innermost
Outer == SubSeq(dispatch, 1, Len(dispatch) - 1)

\* EventBus.subscribe(event_type, handler, once=once, weak=weak)
subscribe(event_type, handler, once, weak) ==
    /\ subs' = [subs EXCEPT ![event_type] =
                  Append(@, [id |-> next_id, once |-> once,
                             wrapped |-> Wrapped(handler, weak)])]
    /\ next_id' = next_id + 1
    /\ ghost' = [ghost EXCEPT !.once = IF once THEN @ \cup {next_id} ELSE @]
    /\ hist' = [op |-> "subscribe", ret |-> next_id]
    /\ UNCHANGED dispatch

\* unsubscribe's test of one subscription: the handle id is the one given, or
\* the target is the handler given (the target of a WeakMethod is a bound
\* method object made by the call, identical to no object the caller holds)
Unsubscribed(entry, handle_id, handler) ==
    \/ handle_id # NoHandle /\ entry.id = handle_id
    \/ handler # None /\ ~entry.wrapped.weak /\ entry.wrapped.handler = handler

\* EventBus.unsubscribe(event_type, handle_id, handler)
unsubscribe(event_type, handle_id, handler) ==
    /\ subs' = IF subs[event_type] = <<>> THEN subs
               ELSE [subs EXCEPT ![event_type] =
                       SelectSeq(@, LAMBDA entry :
                                       ~Unsubscribed(entry, handle_id, handler))]
    /\ hist' = [op |-> "unsubscribe"]
    /\ UNCHANGED <<next_id, dispatch, ghost>>

\* publish's last statement: the subscriptions of the event's type without
\* those whose handle id is in remove_ids
Removed(list, remove_ids) ==
    SelectSeq(list, LAMBDA entry : entry.id \notin remove_ids)

\* EventBus.publish(event) up to its loop: it returns at once when the type
\* has no subscription, else it goes through a copy of the list
publish(event) ==
    /\ IF subs[event] = <<>>
         THEN /\ hist' = [op |-> "publish", event |-> event, subs |-> <<>>,
                          called |-> {}, skipped |-> {}]
              /\ UNCHANGED <<dispatch, ghost>>
         ELSE /\ dispatch' = Append(dispatch,
                                [event |-> event, subs |-> subs[event], i |-> 1,
                                 remove_ids |-> {}, callback |-> None,
                                 running |-> FALSE])
              /\ ghost' = [ghost EXCEPT !.called = Append(@, {}),
                                        !.skipped = Append(@, {})]
              /\ hist' = [op |-> "publishing"]
    /\ UNCHANGED <<subs, next_id>>

\* one turn of publish's loop up to the call: a dead WeakMethod is noted for
\* removal and passed over, any other callback is called
Invoke ==
    /\ dispatch # <<>>
    /\ ~Top.running
    /\ Top.i <= Len(Top.subs)
    /\ LET entry == Top.subs[Top.i]
           callback == Callback(entry.wrapped)
       IN IF callback = None
            THEN /\ dispatch' = Resume([Top EXCEPT !.callback = None,
                                                   !.remove_ids = @ \cup {entry.id},
                                                   !.i = @ + 1])
                 /\ ghost' = [ghost EXCEPT !.skipped[Len(dispatch)] = @ \cup {entry.id}]
            ELSE /\ dispatch' = Resume([Top EXCEPT !.callback = callback,
                                                   !.running = TRUE])
                 /\ ghost' = [ghost EXCEPT !.invoked[entry.id] = @ + 1,
                                           !.called[Len(dispatch)] = @ \cup {entry.id}]
    /\ hist' = [op |-> "publishing"]
    /\ UNCHANGED <<subs, next_id, calls>>

\* the callback returns: a once subscription is noted for removal
Returns ==
    /\ dispatch # <<>>
    /\ Top.running
    /\ dispatch' = Resume([Top EXCEPT !.running = FALSE,
                                      !.remove_ids = IF Top.subs[Top.i].once
                                                       THEN @ \cup {Top.subs[Top.i].id}
                                                       ELSE @,
                                      !.i = @ + 1])
    /\ hist' = [op |-> "publishing"]
    /\ UNCHANGED <<subs, next_id, calls, ghost>>

\* the callback raises: the exception is printed and the loop goes on
Raises ==
    /\ dispatch # <<>>
    /\ Top.running
    /\ dispatch' = Resume([Top EXCEPT !.running = FALSE, !.i = @ + 1])
    /\ hist' = [op |-> "publishing"]
    /\ UNCHANGED <<subs, next_id, calls, ghost>>

\* the loop is over: the subscriptions noted are removed from the list the
\* type has now, and publish returns
Finish ==
    /\ dispatch # <<>>
    /\ ~Top.running
    /\ Top.i > Len(Top.subs)
    /\ subs' = IF Top.remove_ids # {}
                 THEN [subs EXCEPT ![Top.event] = Removed(@, Top.remove_ids)]
                 ELSE subs
    /\ dispatch' = Outer
    /\ ghost' = [ghost EXCEPT !.called = SubSeq(@, 1, Len(@) - 1),
                              !.skipped = SubSeq(@, 1, Len(@) - 1)]
    /\ hist' = [op |-> "publish", event |-> Top.event, subs |-> Top.subs,
                called |-> ghost.called[Len(dispatch)],
                skipped |-> ghost.skipped[Len(dispatch)]]
    /\ UNCHANGED <<next_id, calls>>

\* every subscription of list that wraps the method weakly, dead
Died(list, handler) ==
    IF list = <<>> THEN <<>>
    ELSE [i \in DOMAIN list |->
            IF list[i].wrapped.weak /\ list[i].wrapped.handler = handler
              THEN [list[i] EXCEPT !.wrapped.dead = TRUE]
              ELSE list[i]]

\* the lists of subscriptions the bus holds: those of _subs and the copies of
\* the publish calls in progress
Lists == {subs[t] : t \in EventTypes} \cup {dispatch[d].subs : d \in DOMAIN dispatch}

\* the bus keeps the method alive: a subscription wraps it as it is, or a
\* publish in progress has it as its callback
KeptAlive(handler) ==
    \/ \E list \in Lists : \E i \in DOMAIN list :
          ~list[i].wrapped.weak /\ list[i].wrapped.handler = handler
    \/ \E d \in DOMAIN dispatch : dispatch[d].callback = handler

\* the object of a bound method is collected: its WeakMethods are dead from
\* now on, in _subs and in the copies of the publish calls in progress
collect(handler) ==
    /\ subs' = [t \in EventTypes |-> Died(subs[t], handler)]
    /\ dispatch' = IF dispatch = <<>> THEN <<>>
                    ELSE [d \in DOMAIN dispatch |->
                            [dispatch[d] EXCEPT !.subs = Died(@, handler)]]
    /\ hist' = [op |-> "collect"]
    /\ UNCHANGED <<next_id, ghost>>

(* ---- Any calls of the bus, from outside and from handlers ---- *)

BusKeeps == UNCHANGED <<worldVars, gridVars, reachable>>

BusInit ==
    /\ GridIdle
    /\ WorldIdle
    /\ ControllerIdle
    /\ BusIdle
    /\ calls = 0
    /\ ghost = [invoked |-> [id \in 1..MaxSubs |-> 0], once |-> {},
                called |-> <<>>, skipped |-> <<>>]
    /\ hist = NoHist

Subscribe ==
    /\ Callable
    /\ next_id <= MaxSubs
    /\ \E event_type \in EventTypes, handler \in Handlers, once \in BOOLEAN, weak \in BOOLEAN :
          subscribe(event_type, handler, once, weak)
    /\ UNCHANGED calls
    /\ BusKeeps

Unsubscribe ==
    /\ Callable
    /\ \E event_type \in EventTypes, handle_id \in {NoHandle} \cup (1..(next_id - 1)),
          handler \in Handlers \cup {None} :
          unsubscribe(event_type, handle_id, handler)
    /\ UNCHANGED calls
    /\ BusKeeps

Publish ==
    /\ Callable
    /\ Len(dispatch) < MaxDepth
    /\ calls < MaxPublish
    /\ calls' = calls + 1
    /\ \E event \in EventTypes : publish(event)
    /\ BusKeeps

Collect ==
    /\ \E handler \in Handlers :
          /\ IsMethod(handler)
          /\ ~KeptAlive(handler)
          /\ \E list \in Lists : \E i \in DOMAIN list :
                /\ list[i].wrapped.weak
                /\ list[i].wrapped.handler = handler
                /\ ~list[i].wrapped.dead
          /\ collect(handler)
    /\ UNCHANGED calls
    /\ BusKeeps

BusNext ==
    \/ Subscribe
    \/ Unsubscribe
    \/ Publish
    \/ Invoke /\ BusKeeps
    \/ Returns /\ BusKeeps
    \/ Raises /\ BusKeeps
    \/ Finish /\ BusKeeps
    \/ Collect

SpecBus == BusInit /\ [][BusNext]_vars

(* ---- Claims about the bus ---- *)

\* C32: a handler subscribed with once=True is invoked for at most one
\* published event of its type, over any sequence of publish calls (a publish
\* of the same type from inside a handler while an outer publish is still
\* dispatching included, and a handler that raises included), and a handler
\* that raises never prevents the remaining subscribers of that event from
\* being invoked.
C32_OnceAndIsolated ==
    /\ \A id \in ghost.once : ghost.invoked[id] <= 1
    /\ hist.op = "publish" => IdsOf(hist.subs) \subseteq hist.called \cup hist.skipped

=============================================================================
